---- MODULE Spec2Model ----
(***************************************************************************)
(* A model of the visual acquisition and assembly core of the              *)
(* ai-video-pipeline: visual_fetcher.py (keyword extraction, clip          *)
(* selection, download with cache fallback) and video_creator.py (clip     *)
(* count reconciliation, duration normalisation, concat and mux).          *)
(*                                                                         *)
(* Text is modelled at the level of whitespace-separated words: a string   *)
(* is a sequence of words, and the character-level operations of the code  *)
(* (lower, strip, substring test, the [a-z0-9]+ tokenizer) are tables over *)
(* the words of the vocabulary.  Durations are integers in milliseconds.   *)
(***************************************************************************)
EXTENDS Integers, Sequences, FiniteSets, TLC

VARIABLES
    \* module globals of visual_fetcher.py, read from the environment
    PEXELS_API_KEY,
    MAX_VISUAL_DOWNLOADS,
    ENABLE_VISUAL_CACHE,
    PEXELS_MAX_RETRIES,
    log_writable,   \* whether VISUAL_QUALITY_LOG_PATH can be opened for appending
    files_removable,\* whether os.remove goes through on the files of the output folder
    \* extract_keywords applied to one script
    ex_script,
    ex_out,
    \* _select_best_video applied to one search response
    sel_videos,
    sel_query,
    sel_used,
    sel_out,
    \* the run of fetch_visuals
    script_text,    \* its argument
    pc,             \* where the run is
    keywords,       \* the queries, in script order
    i,              \* the 1-based scene index of the loop
    downloaded,     \* the paths of the clips acquired so far
    used_ids,       \* the ids of the live clips selected so far
    files,          \* the files on disk outside the cache: path -> content
    cache,          \* the files of VISUAL_CACHE_DIR
    log,            \* the log_record of every call that returned, in order
    quality_log,    \* the lines of the file at VISUAL_QUALITY_LOG_PATH
    searched,       \* history: the scenes a search was issued for
    last_call,      \* history: what the last download_video call did
    \* the run of create_video_ffmpeg
    asm_pc,         \* where the run is
    tools,          \* what the media tooling found on the machine can do
    video_files,    \* its arguments
    audio_file,
    target_duration,
    expected_clips,
    final_duration, \* its locals
    clip_count,
    per_clip,
    source_files,
    processed,
    fallback_cmds,  \* history: the commands create_fallback_clip has run
    r1,             \* history: the outcome of the concat command
    r2,             \* history: the outcome of the mux command
    audio_prep,     \* history: the outcome of _prepare_final_audio
    result,         \* what the run returned or raised
    \* ensure_exact_duration applied again and again to its own result
    nrm_path,       \* the clip the next call is given
    nrm_target,     \* the target of every call
    nrm_calls,      \* history: what each call was given, did and returned
    \* the run of _search_video for one query
    sr_pc,          \* where the run is
    sr_attempt,     \* the loop variable
    sr_last_exc,
    sr_requests,    \* history: how each request ended
    sr_sleeps,      \* history: the waits, in ms
    sr_out,         \* what the run returned or raised
    \* the run of _download_with_retry for one URL
    dl_pc,          \* where the run is
    dl_attempt,     \* the loop variable
    dl_last_exc,
    dl_elapsed,     \* time.monotonic() - start of the attempt under way
    dl_total,       \* total of the attempt under way
    dl_written,     \* the bytes the attempt under way has written
    dl_file,        \* what is at output_path
    dl_last,        \* history: the attempt that ended last
    dl_outcomes,    \* history: how each attempt ended
    dl_sleeps,      \* history: the waits, in ms
    dl_out,         \* what the run returned or raised
    \* _find_cached_clip applied to one cache directory
    lk_entries,     \* the files of the directory
    lk_query,
    lk_listing,     \* the order in which os.listdir gave them
    lk_out,
    \* _pick_video_url applied to one video
    pv_files,       \* its video_files
    pv_out,
    \* _score_video applied to one video and one query
    sc_video,
    sc_query,
    sc_out,
    \* run_pipeline after its call of create_video
    pipeline_pc,    \* the step run_pipeline is at
    pipeline_steps  \* history: the steps after the assembly that were started

cfg_vars == <<PEXELS_API_KEY, MAX_VISUAL_DOWNLOADS, ENABLE_VISUAL_CACHE, PEXELS_MAX_RETRIES,
              log_writable, files_removable>>
ex_vars == <<ex_script, ex_out>>
sel_vars == <<sel_videos, sel_query, sel_used, sel_out>>
fetch_rest == <<script_text, pc, keywords, i, downloaded, used_ids, cache, log, quality_log,
               searched, last_call>>
fetch_vars == <<fetch_rest, files>>
asm_vars == <<asm_pc, tools, video_files, audio_file, target_duration, expected_clips,
              final_duration, clip_count, per_clip, source_files, processed,
              fallback_cmds, r1, r2, audio_prep, result>>
nrm_vars == <<nrm_path, nrm_target, nrm_calls>>
sr_vars == <<sr_pc, sr_attempt, sr_last_exc, sr_requests, sr_sleeps, sr_out>>
dl_vars == <<dl_pc, dl_attempt, dl_last_exc, dl_elapsed, dl_total, dl_written, dl_file,
             dl_last, dl_outcomes, dl_sleeps, dl_out>>
lk_vars == <<lk_entries, lk_query, lk_listing, lk_out>>
pure_vars == <<pv_files, pv_out, sc_video, sc_query, sc_out>>
pipe_vars == <<pipeline_pc, pipeline_steps>>
aux_vars == <<nrm_vars, sr_vars, dl_vars, lk_vars, pure_vars, pipe_vars>>
vars == <<cfg_vars, ex_vars, sel_vars, fetch_vars, asm_vars, aux_vars>>

\* A result that has not been computed yet, and a computed one.
Pending == [done |-> FALSE]
Returned(v) == [done |-> TRUE, value |-> v]

(***************************************************************************)
(* Bounds                                                                  *)
(***************************************************************************)
\* Longest script, in lines, given to extract_keywords on its own.
MaxLines == 3
\* Largest value of the MAX_VISUAL_DOWNLOADS setting.
MaxDownloadsCfg == 3
\* Most videos in one search response (the code asks for per_page = 10).
MaxResults == 2
\* Most clips handed to create_video_ffmpeg on its own.
MaxClips == 3
\* Largest expected_clips given to create_video_ffmpeg on its own.
MaxExpected == 9
\* Largest value of the PEXELS_MAX_RETRIES setting.
MaxRetriesCfg == 3
\* Most files in the cache directory given to _find_cached_clip on its own.
MaxEntries == 2
\* The most variants a video object lists.
MaxVariants == 3

(***************************************************************************)
(* Generic sequence helpers                                                *)
(***************************************************************************)
Range(s) == {s[k] : k \in 1..Len(s)}

Prefix(s, n) == SubSeq(s, 1, IF n < Len(s) THEN n ELSE Len(s))

SeqsUpTo(S, n) == UNION {[1..k -> S] : k \in 0..n}

RECURSIVE SetToSeq(_)
SetToSeq(S) ==
    IF S = {} THEN <<>>
    ELSE LET x == CHOOSE y \in S : TRUE IN <<x>> \o SetToSeq(S \ {x})

\* The function f with path p set to content c, and with p removed.
WriteFile(f, p, c) == [q \in DOMAIN f \cup {p} |-> IF q = p THEN c ELSE f[q]]
RemoveFile(f, p) == [q \in DOMAIN f \ {p} |-> f[q]]
NoFiles == [q \in {} |-> 0]

RECURSIVE SumSeq(_)
SumSeq(s) == IF s = <<>> THEN 0 ELSE s[1] + SumSeq(Tail(s))

(***************************************************************************)
(* Words                                                                   *)
(***************************************************************************)
\* str.lower() on one word.
Lower(w) ==
    CASE w = "Robotic" -> "robotic"
      [] OTHER -> w

\* w.strip(".,") on one (lower-cased) word.
StripPunct(w) ==
    CASE w = "surgery." -> "surgery"
      [] w = "," -> ""
      [] OTHER -> w

\* `trigger in w`: the substring test on one (lower-cased) word.  A trigger
\* holds no whitespace, so it occurs in the combined text iff it occurs in
\* one of its words.
Contains(w, trigger) ==
    CASE trigger = "healthcare" -> w \in {"healthcare"}
      [] trigger = "medical" -> w \in {"medical"}
      [] trigger = "robot" -> w \in {"robot", "robotic", "robots"}
      [] trigger = "ai" -> w \in {"ai", "brain"}
      [] OTHER -> FALSE

\* re.findall(r"[a-z0-9]+", w.lower()) on one word, as a set.
WordTokens(w) ==
    CASE w = "x-ray" -> {"x", "ray"}
      [] w = "surgery." -> {"surgery"}
      [] w = "," -> {}
      [] w = "" -> {}
      [] OTHER -> {Lower(w)}

\* _tokenize of a text given as its words.
_tokenize(text) == UNION {WordTokens(text[k]) : k \in 1..Len(text)}

stopwords ==
    {"a", "an", "the", "and", "with", "in", "on", "of", "to", "for", "through",
     "allows", "allow", "enhance", "enhancing", "improve", "improving", "small",
     "worldwide"}

\* DOMAIN_HINTS, in the dict's insertion order.
DOMAIN_TRIGGERS == <<"healthcare", "medical", "robot", "ai">>

DOMAIN_HINTS(trigger) ==
    CASE trigger = "healthcare" ->
            <<"hospital", "doctor", "patient", "medical", "clinic", "surgery">>
      [] trigger = "medical" ->
            <<"hospital", "doctor", "patient", "medical", "clinic", "surgery">>
      [] trigger = "robot" -> <<"robot", "technology">>
      [] trigger = "ai" -> <<"technology", "digital">>

(***************************************************************************)
(* extract_keywords                                                        *)
(***************************************************************************)
\* A raw line of the script: `visual` says that the stripped line starts
\* with "[VISUAL]:", `words` are the words after the prefix (of the whole
\* line when there is none).  The blank line has no prefix and no words.
BlankLine == [visual |-> FALSE, words |-> <<>>]

\* lines = [line.strip() for line in script_text.splitlines() if line.strip()]
NonBlankLines(text) ==
    SelectSeq(text, LAMBDA l : l.visual \/ l.words # <<>>)

\* hints appended to the query terms for one trigger.
RECURSIVE AppendHints(_, _)
AppendHints(terms, hints) ==
    IF hints = <<>> THEN terms
    ELSE AppendHints(IF hints[1] \in Range(terms) THEN terms
                     ELSE Append(terms, hints[1]),
                     Tail(hints))

RECURSIVE ExpandTriggers(_, _, _)
ExpandTriggers(terms, combined, triggers) ==
    IF triggers = <<>> THEN terms
    ELSE ExpandTriggers(
            IF \E k \in 1..Len(combined) : Contains(combined[k], triggers[1])
            THEN AppendHints(terms, DOMAIN_HINTS(triggers[1]))
            ELSE terms,
            combined, Tail(triggers))

\* A search term that is not cut to 10 terms: a plausible slip.
SearchTerm_uncut(lines, at) ==
    LET visual_desc == lines[at].words
        narration == IF at + 1 <= Len(lines) /\ ~lines[at + 1].visual
                     THEN lines[at + 1].words ELSE <<>>
        raw == visual_desc \o narration
        combined == [k \in 1..Len(raw) |-> Lower(raw[k])]
        words == [k \in 1..Len(combined) |-> StripPunct(combined[k])]
        filtered == SelectSeq(words, LAMBDA w : w # "" /\ w \notin stopwords)
    IN ExpandTriggers(Prefix(filtered, 7), combined, DOMAIN_TRIGGERS)

\* The search term built for the cue at lines[at]; <<>> is the empty string.
SearchTerm(lines, at) ==
    LET visual_desc == lines[at].words
        narration == IF at + 1 <= Len(lines) /\ ~lines[at + 1].visual
                     THEN lines[at + 1].words ELSE <<>>
        raw == visual_desc \o narration
        combined == [k \in 1..Len(raw) |-> Lower(raw[k])]
        words == [k \in 1..Len(combined) |-> StripPunct(combined[k])]
        filtered == SelectSeq(words, LAMBDA w : w # "" /\ w \notin stopwords)
        query_terms == ExpandTriggers(Prefix(filtered, 7), combined, DOMAIN_TRIGGERS)
    IN Prefix(query_terms, 10)

RECURSIVE CollectKeywords(_, _)
CollectKeywords(lines, at) ==
    IF at > Len(lines) THEN <<>>
    ELSE IF ~lines[at].visual THEN CollectKeywords(lines, at + 1)
    ELSE LET search_term == SearchTerm(lines, at)
         IN (IF search_term # <<>> THEN <<search_term>> ELSE <<>>)
            \o CollectKeywords(lines, at + 1)

\* keywords[:MAX_VISUAL_DOWNLOADS] without the bound: a plausible slip.
extract_keywords_unbounded(text) ==
    CollectKeywords(NonBlankLines(text), 1)

extract_keywords(text) ==
    Prefix(CollectKeywords(NonBlankLines(text), 1), MAX_VISUAL_DOWNLOADS)

\* The number of [VISUAL] cue lines of a script.
CueCount(text) == Cardinality({k \in 1..Len(text) : text[k].visual})

(***************************************************************************)
(* Search results, scoring and selection                                   *)
(***************************************************************************)
\* video.get("id") of a video object that carries no id (None).
NoId == 0

\* None, as returned in place of a video; the missing URL is the empty string
\* (both are falsy where the code tests them).
None == [none |-> TRUE]
NoUrl == ""

\* The dict _score_video returns.
ScoreRecord(overlap, title_overlap, duration, duration_bonus) ==
    [score |-> overlap * 10 + title_overlap * 2 + duration_bonus,
     overlap |-> overlap,
     title_overlap |-> title_overlap,
     duration |-> duration,
     duration_bonus |-> duration_bonus]

\* A duration bonus whose bounds are exclusive: a plausible slip.
ScoreAgainst_exclusive(video, q) ==
    ScoreRecord(Cardinality(q \cap _tokenize(video.url)),
                Cardinality(q \cap _tokenize(video.user)),
                video.duration,
                IF 4 < video.duration /\ video.duration < 15 THEN 1 ELSE 0)

\* _score_video with the tokens q of the query at hand.
ScoreAgainst(video, q) ==
    ScoreRecord(Cardinality(q \cap _tokenize(video.url)),
                Cardinality(q \cap _tokenize(video.user)),
                video.duration,
                IF 4 <= video.duration /\ video.duration <= 15 THEN 1 ELSE 0)

\* _score_video: the score record of one video against the query.
_score_video(video, query) == ScoreAgainst(video, _tokenize(query))

\* The sort key of one MP4 variant: (width*height, |height - 720|), with
\* 1280 and 720 standing in for a missing (0) width and height.
VariantKey(f) ==
    LET w == IF f.width = 0 THEN 1280 ELSE f.width
        h == IF f.height = 0 THEN 720 ELSE f.height
    IN <<w * h, IF h >= 720 THEN h - 720 ELSE 720 - h>>

KeyLess(a, b) == a[1] < b[1] \/ (a[1] = b[1] /\ a[2] < b[2])

\* sorted(mp4_files, key=...): a stable ascending sort, by insertion.
RECURSIVE InsertVariant(_, _)
InsertVariant(f, sorted) ==
    IF sorted = <<>> THEN <<f>>
    ELSE IF KeyLess(VariantKey(f), VariantKey(sorted[1])) THEN <<f>> \o sorted
    ELSE <<sorted[1]>> \o InsertVariant(f, Tail(sorted))

RECURSIVE SortVariants(_)
SortVariants(variants) ==
    IF variants = <<>> THEN <<>>
    ELSE InsertVariant(variants[Len(variants)], SortVariants(SubSeq(variants, 1, Len(variants) - 1)))

\* _pick_video_url: the link of the preferred MP4 variant, or None.
_pick_video_url(video) ==
    LET mp4_files == SelectSeq(video.video_files,
                               LAMBDA f : f.file_type = "video/mp4" /\ f.link # "")
    IN IF mp4_files = <<>> THEN NoUrl ELSE SortVariants(mp4_files)[1].link

\* scored.sort(key=score, reverse=True): a stable descending sort, by
\* insertion; equal scores keep their order in the response.
RECURSIVE InsertScored(_, _)
InsertScored(x, sorted) ==
    IF sorted = <<>> THEN <<x>>
    ELSE IF x[2].score > sorted[1][2].score THEN <<x>> \o sorted
    ELSE <<sorted[1]>> \o InsertScored(x, Tail(sorted))

RECURSIVE SortScored(_)
SortScored(scored) ==
    IF scored = <<>> THEN <<>>
    ELSE InsertScored(scored[Len(scored)], SortScored(SubSeq(scored, 1, Len(scored) - 1)))

\* `unused or videos`: the list when it is not empty, else the other.
OrElse(unused, videos) == IF unused # <<>> THEN unused ELSE videos

\* Candidates that are not filtered by used_ids: a plausible slip.
Candidates_unfiltered(videos, used) == videos

\* candidates = [v for v in videos if v.get("id") not in used_ids] or videos
Candidates(videos, used) ==
    OrElse(SelectSeq(videos, LAMBDA v : v.id \notin used), videos)

\* scored = [(v, _score_video(v, search_query)) for v in candidates]
Scored(candidates, search_query) ==
    [k \in 1..Len(candidates) |-> <<candidates[k], _score_video(candidates[k], search_query)>>]

\* best_video, best_score = scored[0]
First(scored) == [video |-> scored[1][1], score |-> scored[1][2]]

\* The selection without the sort: the first candidate whatever its score.
_select_best_video_unsorted(videos, search_query, used) ==
    IF videos = <<>> THEN None
    ELSE First(Scored(Candidates(videos, used), search_query))

\* _select_best_video on the response `videos` of the search: the best
\* video and its score record, or None when the response is empty.
_select_best_video(videos, search_query, used) ==
    IF videos = <<>> THEN None
    ELSE First(SortScored(Scored(Candidates(videos, used), search_query)))

(***************************************************************************)
(* The clip cache                                                          *)
(***************************************************************************)
\* int(time.time()) as it appears in a cache file name.
Stamp == "1700000000"

\* str(video_id or 'local') as it appears in a cache file name.
IdStr(id) ==
    CASE id = NoId -> "local"
      [] id = 101 -> "101"
      [] id = 102 -> "102"
      [] id = 103 -> "103"
      [] id = 104 -> "104"
      [] OTHER -> "7"

\* _safe_filename on one word of a query: runs of characters outside
\* [a-zA-Z0-9_-] become "_" (which separates words in the name, as the
\* blanks between the words do) and the result is lower-cased.  The cut at
\* max_len characters is not modelled: names stay below it.
SafeWord(w) ==
    CASE w = "surgery." -> <<"surgery">>
      [] w = "," -> <<>>
      [] OTHER -> <<Lower(w)>>

RECURSIVE _safe_filename(_)
_safe_filename(text) ==
    IF text = <<>> THEN <<>> ELSE SafeWord(text[1]) \o _safe_filename(Tail(text))

\* The name f"{video_id or 'local'}_{_safe_filename(query)}_{stamp}.mp4".
CacheName(video_id, search_query) ==
    [id |-> IdStr(video_id),
     slug |-> OrElse(_safe_filename(search_query), <<"query">>),
     stamp |-> Stamp,
     ext |-> "mp4"]

\* _tokenize of a file name of the cache directory.
NameTokens(name) == {name.id, name.stamp, name.ext} \cup _tokenize(name.slug)

\* _store_in_cache: the cache after the copy of the clip; `copy_ok` says
\* whether the copy went through (a failure is swallowed).
PutEntry(name, content) ==
    {e \in cache : e.name # name} \cup {[name |-> name, content |-> content]}

_store_in_cache(content, search_query, video_id, copy_ok) ==
    IF ~ENABLE_VISUAL_CACHE \/ ~copy_ok THEN cache
    ELSE PutEntry(CacheName(video_id, search_query), content)

\* The loop of _find_cached_clip over the directory listing.
RECURSIVE ScanCache(_, _, _, _)
ScanCache(listing, query_tokens, best_path, best_score) ==
    IF listing = <<>> THEN [best_path |-> best_path, best_score |-> best_score]
    ELSE IF listing[1].name.ext # "mp4"
    THEN ScanCache(Tail(listing), query_tokens, best_path, best_score)
    ELSE IF Cardinality(query_tokens \cap NameTokens(listing[1].name)) > best_score
    THEN ScanCache(Tail(listing), query_tokens, listing[1],
                   Cardinality(query_tokens \cap NameTokens(listing[1].name)))
    ELSE ScanCache(Tail(listing), query_tokens, best_path, best_score)

\* A lookup that takes an entry sharing no token with the query: a
\* plausible slip.
ScanResult_any(r) == IF r.best_score < 0 THEN None ELSE r.best_path

\* if best_score <= 0: return None
ScanResult(r) == IF r.best_score <= 0 THEN None ELSE r.best_path

\* _find_cached_clip, given the order in which os.listdir yields the
\* entries: the chosen entry, or None.

_find_cached_clip(search_query, listing) ==
    IF ~ENABLE_VISUAL_CACHE THEN None
    ELSE ScanResult(ScanCache(listing, _tokenize(search_query), None, -1))

\* The orders os.listdir may yield: each entry first in turn, which yields
\* every result the scan can have.
Listings(entries) ==
    IF entries = {} THEN {<<>>}
    ELSE {<<e>> \o SetToSeq(entries \ {e}) : e \in entries}

(***************************************************************************)
(* download_video                                                          *)
(***************************************************************************)
VideoPath(n) == [kind |-> "video", n |-> n, norm |-> <<>>]

\* video, score_data = _select_best_video(search_query, used_ids), when
\* the search does not raise.
Selection(search_query, used, io) ==
    IF io.search.raises THEN None
    ELSE _select_best_video(io.search.videos, search_query, used)

\* How far the live path of download_video gets, given what the network
\* does: io.search is the outcome of _search_video (the error after the last
\* retry, or the response), io.dl_ok that of _download_with_retry, and sel
\* the selection.
StageOf(io, sel) ==
    IF io.search.raises THEN "search_failed"
    ELSE IF sel = None THEN "no_candidates"
    ELSE IF _pick_video_url(sel.video) = NoUrl THEN "no_url"
    ELSE IF ~io.dl_ok THEN "download_failed"
    ELSE "ok"

ClipContent(video) == [src |-> video.id, duration |-> video.duration * 1000, partial |-> FALSE]

\* used_ids.add(video_id) left out: a plausible slip.
AddUsed_never(used, video_id) == used

\* if video_id is not None: used_ids.add(video_id)
AddUsed(used, video_id) == IF video_id # NoId THEN used \cup {video_id} ELSE used

\* What an interrupted or failed write leaves of a clip.
Partial(content) == [content EXCEPT !.partial = TRUE]

\* A removal that is never carried out: a plausible slip.
RemoveQuietly_never(fs, path) == fs

\* if os.path.exists(path): try: os.remove(path) except OSError: pass
RemoveQuietly(fs, path) == IF files_removable THEN RemoveFile(fs, path) ELSE fs

\* An except branch that lets the error out instead of returning False.
FailureResult_raising(search_query, output_path, scene_index, fs, error) ==
    [ret |-> "raised", files |-> fs, log |-> <<>>, used_ids |-> used_ids, cache |-> cache]

\* The end of the except branch, lines 296-305: the output file is removed,
\* the failure is logged and False is returned.
FailureResult(search_query, output_path, scene_index, fs, error) ==
    [ret |-> "False",
     files |-> RemoveQuietly(fs, output_path),
     log |-> <<[scene |-> scene_index, query |-> search_query, source |-> "none",
                video_id |-> NoId, score |-> None, status |-> "failed",
                error |-> error]>>,
     used_ids |-> used_ids,
     cache |-> cache]

\* A cache fallback that marks the source of the cached clip as used: a
\* plausible slip.
CacheResult_marking(search_query, output_path, scene_index, fs, error, cached) ==
    [ret |-> "True",
     files |-> WriteFile(fs, output_path, cached.content),
     log |-> <<[scene |-> scene_index, query |-> search_query,
                source |-> "cache_fallback", video_id |-> NoId,
                score |-> None, status |-> "ok", error |-> error]>>,
     used_ids |-> used_ids \cup ({cached.content.src} \ {NoId}),
     cache |-> cache]

\* The copy of the cached clip to output_path, lines 280-292.
CacheResult(search_query, output_path, scene_index, fs, error, cached) ==
    [ret |-> "True",
     files |-> WriteFile(fs, output_path, cached.content),
     log |-> <<[scene |-> scene_index, query |-> search_query,
                source |-> "cache_fallback", video_id |-> NoId,
                score |-> None, status |-> "ok", error |-> error]>>,
     used_ids |-> used_ids,
     cache |-> cache]

\* A cache fallback that passes over a cached clip whose source is already
\* in used_ids: a plausible slip.
FallbackWith_unused(search_query, output_path, scene_index, fs, error, io, cached) ==
    IF cached # None /\ io.copy_ok /\ cached.content.src \notin used_ids
    THEN CacheResult(search_query, output_path, scene_index, fs, error, cached)
    ELSE FailureResult(search_query, output_path, scene_index, fs, error)

\* The except branch once the cache has been searched.
FallbackWith(search_query, output_path, scene_index, fs, error, io, cached) ==
    IF cached # None /\ io.copy_ok
    THEN CacheResult(search_query, output_path, scene_index, fs, error, cached)
    ELSE FailureResult(search_query, output_path, scene_index, fs, error)

\* An except branch that gives up without looking into the cache.
Fallback_no_cache(search_query, output_path, scene_index, fs, error, io) ==
    FailureResult(search_query, output_path, scene_index, fs, error)

\* The except branch of download_video, lines 277-305; fs is the disk as
\* the live path left it and error says where the live path failed.
Fallback(search_query, output_path, scene_index, fs, error, io) ==
    FallbackWith(search_query, output_path, scene_index, fs, error, io,
                 _find_cached_clip(search_query, io.listing))

\* A try branch in which an error of the cache write reaches the except
\* clause: a plausible slip.
LiveResult_store_fatal(search_query, output_path, scene_index, io, sel, content) ==
    IF ENABLE_VISUAL_CACHE /\ ~io.store_ok
    THEN FailureResult(search_query, output_path, scene_index,
                       WriteFile(files, output_path, content), "store_failed")
    ELSE [ret |-> "True",
          files |-> WriteFile(files, output_path, content),
          used_ids |-> AddUsed(used_ids, sel.video.id),
          cache |-> _store_in_cache(content, search_query, sel.video.id, io.store_ok),
          log |-> <<[scene |-> scene_index, query |-> search_query,
                     source |-> "pexels", video_id |-> sel.video.id,
                     score |-> sel.score, status |-> "ok", error |-> "none"]>>]

\* The try branch run to its end, lines 253-275.
LiveResult(search_query, output_path, scene_index, io, sel, content) ==
    [ret |-> "True",
     files |-> WriteFile(files, output_path, content),
     used_ids |-> AddUsed(used_ids, sel.video.id),
     cache |-> _store_in_cache(content, search_query, sel.video.id, io.store_ok),
     log |-> <<[scene |-> scene_index, query |-> search_query,
                source |-> "pexels", video_id |-> sel.video.id,
                score |-> sel.score, status |-> "ok", error |-> "none"]>>]

DownloadVideoFrom(search_query, output_path, scene_index, io, sel, stage) ==
    IF stage = "ok"
    THEN LiveResult(search_query, output_path, scene_index, io, sel, ClipContent(sel.video))
    ELSE Fallback(search_query, output_path, scene_index,
                  \* _download_with_retry removes what a failed attempt wrote
                  IF stage = "download_failed"
                  THEN RemoveQuietly(WriteFile(files, output_path,
                                               Partial(ClipContent(sel.video))),
                                     output_path)
                  ELSE files,
                  stage, io)

DownloadVideoWith(search_query, output_path, scene_index, io, sel) ==
    DownloadVideoFrom(search_query, output_path, scene_index, io, sel, StageOf(io, sel))

\* download_video(search_query, output_path, used_ids, scene_index) run to
\* its return: what it returns and the state it leaves.
download_video(search_query, output_path, scene_index, io) ==
    DownloadVideoWith(search_query, output_path, scene_index, io,
                      Selection(search_query, used_ids, io))

\* A log append that writes the record once more: a plausible slip.
_append_quality_log_twice(lines, records, writable) ==
    IF writable THEN lines \o records \o records ELSE lines

\* _append_quality_log, lines 45-51: the record is appended to the file,
\* and an error of makedirs, open or write is swallowed.
_append_quality_log(lines, records, writable) ==
    IF writable THEN lines \o records ELSE lines

\* The places of download_video at which a KeyboardInterrupt can arrive.
InterruptPoints == {"search", "download", "store", "cache_copy"}

InterruptedAt(reached, fs, used, entries) ==
    [reached |-> reached, files |-> fs, used_ids |-> used, cache |-> entries]

InterruptedFrom(search_query, output_path, point, sel, stage, cached) ==
    CASE point = "search" -> InterruptedAt(TRUE, files, used_ids, cache)
      [] point = "download" ->
            IF stage \in {"download_failed", "ok"}
            THEN InterruptedAt(TRUE,
                               WriteFile(files, output_path, Partial(ClipContent(sel.video))),
                               used_ids, cache)
            ELSE InterruptedAt(FALSE, files, used_ids, cache)
      [] point = "store" ->
            IF stage = "ok"
            THEN InterruptedAt(TRUE,
                               WriteFile(files, output_path, ClipContent(sel.video)),
                               AddUsed(used_ids, sel.video.id),
                               IF ENABLE_VISUAL_CACHE
                               THEN PutEntry(CacheName(sel.video.id, search_query),
                                             Partial(ClipContent(sel.video)))
                               ELSE cache)
            ELSE InterruptedAt(FALSE, files, used_ids, cache)
      [] point = "cache_copy" ->
            IF stage # "ok" /\ cached # None
            THEN InterruptedAt(TRUE,
                               WriteFile(files, output_path, Partial(cached.content)),
                               used_ids, cache)
            ELSE InterruptedAt(FALSE, files, used_ids, cache)

InterruptedWith(search_query, output_path, io, point, sel) ==
    InterruptedFrom(search_query, output_path, point, sel, StageOf(io, sel),
                    _find_cached_clip(search_query, io.listing))

\* download_video left by a KeyboardInterrupt at `point`, which no except
\* clause of visual_fetcher.py below fetch_visuals catches: the state it
\* leaves.  A partial file stays where the interrupted copy was writing: at
\* output_path, or in the cache.
download_video_interrupted(search_query, output_path, scene_index, io, point) ==
    InterruptedWith(search_query, output_path, io, point,
                    Selection(search_query, used_ids, io))

(***************************************************************************)
(* Inputs                                                                  *)
(***************************************************************************)
LinePool ==
    { BlankLine,
      [visual |-> TRUE, words |-> <<>>],
      [visual |-> TRUE, words |-> <<"a", "Robotic", "arm", "in", "surgery.">>],
      [visual |-> TRUE, words |-> <<"the", ",">>],
      [visual |-> TRUE, words |-> <<"robot", "arm", "robot">>],
      [visual |-> TRUE, words |-> <<"robot", "in", "hospital", "hallway">>],
      [visual |-> FALSE, words |-> <<"medical", "x-ray", "of", "a", "brain">>],
      [visual |-> FALSE, words |-> <<"doctors", "use", "robots", "with", "care",
                                     "and", "precision", "every", "day", "now">>] }

Mp4(link, w, h) == [file_type |-> "video/mp4", link |-> link, width |-> w, height |-> h]

\* The videos the search API can return.
Catalogue ==
    { [id |-> 101, url |-> <<"video", "robot", "hospital">>, user |-> <<"ann">>,
       duration |-> 10, video_files |-> <<Mp4("a-hd", 1920, 1080), Mp4("a-sd", 640, 360)>>],
      [id |-> 102, url |-> <<"video", "hospital", "robot">>, user |-> <<"bob">>,
       duration |-> 12, video_files |-> <<Mp4("b-sd", 1280, 720)>>],
      [id |-> 103, url |-> <<"video", "city">>, user |-> <<"robot", "films">>,
       duration |-> 30, video_files |-> <<Mp4("c-sd", 0, 0)>>],
      [id |-> NoId, url |-> <<"video", "surgery">>, user |-> <<>>,
       duration |-> 5, video_files |-> <<Mp4("d-sd", 960, 540)>>],
      [id |-> 104, url |-> <<"video", "robot", "surgery", "hospital">>, user |-> <<>>,
       duration |-> 3,
       video_files |-> <<[file_type |-> "video/webm", link |-> "e-webm", width |-> 640, height |-> 360],
                         Mp4("", 640, 360)>>] }

QueryPool ==
    { <<"robot", "hospital", "hallway", "technology">>,
      <<"robotic", "arm", "surgery", "robot", "technology">>,
      <<"city", "x-ray">> }

\* The clips of the catalogue a run is offered, and the responses of one
\* search of a run: no video twice in one response.
RunCatalogue == {v \in Catalogue : v.id # 103}

RunResponses ==
    {r \in SeqsUpTo(RunCatalogue, MaxResults) :
        \A j, k \in 1..Len(r) : j # k => r[j] # r[k]}

SearchOutcomes ==
    {[raises |-> TRUE, videos |-> <<>>]}
        \cup {[raises |-> FALSE, videos |-> r] : r \in RunResponses}

IO(search, dl_ok, store_ok, copy_ok, listing) ==
    [search |-> search, dl_ok |-> dl_ok, store_ok |-> store_ok, copy_ok |-> copy_ok,
     listing |-> listing]

\* Whether the search outcome lets the live path reach the download.
ReachesDownload(search_query, search) ==
    StageOf(IO(search, TRUE, TRUE, TRUE, <<>>),
            Selection(search_query, used_ids, IO(search, TRUE, TRUE, TRUE, <<>>))) = "ok"

\* What the environment did before a KeyboardInterrupt arrives at `point`.
InterruptIOs(search_query, point) ==
    CASE point = "search" -> {IO([raises |-> TRUE, videos |-> <<>>], TRUE, TRUE, TRUE, <<>>)}
      [] point \in {"download", "store"} ->
            {IO(search, TRUE, TRUE, TRUE, <<>>) : search \in SearchOutcomes}
      [] point = "cache_copy" ->
            {IO(search, d, TRUE, TRUE, l) :
                search \in SearchOutcomes, d \in BOOLEAN, l \in Listings(cache)}

\* The scripts given to fetch_visuals.
RunScripts ==
    { << [visual |-> TRUE, words |-> <<"robot", "in", "hospital", "hallway">>],
         BlankLine,
         [visual |-> TRUE, words |-> <<"a", "Robotic", "arm", "in", "surgery.">>],
         [visual |-> FALSE, words |-> <<"medical", "x-ray", "of", "a", "brain">>] >> }

CacheEntry(id, slug, ext, src) ==
    [name |-> [id |-> id, slug |-> slug, stamp |-> "1690000000", ext |-> ext],
     content |-> [src |-> src, duration |-> 9000, partial |-> FALSE]]

\* What earlier runs can have left in the cache directory.
OldCaches ==
    { {CacheEntry("102", <<"robot", "hospital", "hallway">>, "part", 102)},
      {CacheEntry("103", <<"city", "robot">>, "mp4", 103),
       CacheEntry("local", <<"hallway", "arm">>, "mp4", NoId),
       CacheEntry("101", <<"x", "ray">>, "mp4", 101)} }

\* int(os.getenv("MAX_VISUAL_DOWNLOADS", "8")) with the variable unset.
DefaultMaxVisualDownloads == 8
\* int(os.getenv("PEXELS_MAX_RETRIES", "3")) with the variable unset.
DefaultMaxRetries == 3

CfgInit ==
    /\ PEXELS_API_KEY = TRUE
    /\ MAX_VISUAL_DOWNLOADS \in 0..MaxDownloadsCfg
    /\ ENABLE_VISUAL_CACHE \in BOOLEAN
    /\ PEXELS_MAX_RETRIES = DefaultMaxRetries
    /\ log_writable = TRUE
    /\ files_removable = TRUE

(***************************************************************************)
(* Specification of extract_keywords on its own                            *)
(***************************************************************************)
ExIdle == ex_script = <<>> /\ ex_out = Pending

ExInit == ex_script \in SeqsUpTo(LinePool, MaxLines) /\ ex_out = Pending

ExtractKeywords ==
    /\ ~ex_out.done
    /\ ex_out' = Returned(extract_keywords(ex_script))
    /\ UNCHANGED <<cfg_vars, aux_vars, ex_script, sel_vars, fetch_vars, asm_vars>>


(***************************************************************************)
(* Specification of _select_best_video on its own                          *)
(***************************************************************************)
CfgDefault ==
    /\ PEXELS_API_KEY = TRUE
    /\ MAX_VISUAL_DOWNLOADS = DefaultMaxVisualDownloads
    /\ ENABLE_VISUAL_CACHE = TRUE
    /\ PEXELS_MAX_RETRIES = DefaultMaxRetries
    /\ log_writable = TRUE
    /\ files_removable = TRUE

SelIdle ==
    /\ sel_videos = <<>>
    /\ sel_query = <<>>
    /\ sel_used = {}
    /\ sel_out = Pending

SelInit ==
    /\ sel_videos \in SeqsUpTo(Catalogue, MaxResults)
    /\ sel_query \in QueryPool
    /\ sel_used \in SUBSET {101, 102}
    /\ sel_out = Pending

SelectBestVideo ==
    /\ ~sel_out.done
    /\ sel_out' = Returned(_select_best_video(sel_videos, sel_query, sel_used))
    /\ UNCHANGED <<cfg_vars, aux_vars, ex_vars, sel_videos, sel_query, sel_used, fetch_vars, asm_vars>>

(***************************************************************************)
(* fetch_visuals                                                           *)
(***************************************************************************)
NoCall == [scene |-> 0, ret |-> "none", stage |-> "none"]

FetchIdle ==
    /\ script_text = <<>>
    /\ pc = "idle"
    /\ keywords = <<>>
    /\ i = 0
    /\ downloaded = <<>>
    /\ used_ids = {}
    /\ cache = {}
    /\ log = <<>>
    /\ quality_log = <<>>
    /\ searched = {}
    /\ last_call = NoCall

FetchInit ==
    /\ script_text \in RunScripts
    /\ pc = "start"
    /\ keywords = <<>>
    /\ i = 0
    /\ downloaded = <<>>
    /\ used_ids = {}
    \* video_2.mp4 is there from an earlier run
    /\ files = WriteFile(NoFiles, VideoPath(2),
                         [src |-> 103, duration |-> 30000, partial |-> FALSE])
    /\ cache \in OldCaches
    /\ log = <<>>
    /\ quality_log = <<>>
    /\ searched = {}
    /\ last_call = NoCall

\* A check that lets a missing key through: a plausible slip.
KeyMissing_never(key) == FALSE

\* if not PEXELS_API_KEY
KeyMissing(key) == ~key

\* fetch_visuals up to its loop, lines 309-316.
FetchStart ==
    /\ pc = "start"
    /\ IF KeyMissing(PEXELS_API_KEY)
       THEN /\ pc' = "fetched"
            /\ UNCHANGED <<keywords, i>>
       ELSE /\ pc' = "loop"
            /\ keywords' = extract_keywords(script_text)
            /\ i' = 1
    /\ downloaded' = <<>>
    /\ used_ids' = {}
    /\ UNCHANGED <<cfg_vars, aux_vars, ex_vars, sel_vars, asm_vars, script_text, files, cache, log,
                   quality_log, searched, last_call>>

\* What the history keeps of one call: what it returned, where the live
\* path stopped, the id the search selected, the ids of the response,
\* whether every video of the response was already used, whether the
\* cache held an entry matching the query, and whether the copies to and
\* from the cache went through.
CallRecordWith(search_query, scene_index, io, ret, sel) ==
    [scene |-> scene_index,
     ret |-> ret,
     stage |-> StageOf(io, sel),
     selected |-> IF sel = None THEN NoId ELSE sel.video.id,
     offered |-> {io.search.videos[k].id : k \in 1..Len(io.search.videos)},
     all_used |-> \A k \in 1..Len(io.search.videos) : io.search.videos[k].id \in used_ids,
     cache_match |-> \E e \in cache :
                        /\ e.name.ext = "mp4"
                        /\ _tokenize(search_query) \cap NameTokens(e.name) # {},
     store_ok |-> io.store_ok,
     copy_ok |-> io.copy_ok]

CallRecord(search_query, scene_index, io, ret) ==
    CallRecordWith(search_query, scene_index, io, ret, Selection(search_query, used_ids, io))

\* downloaded grown at the wrong end: a plausible slip.
AppendClip_front(clips, output_path) == <<output_path>> \o clips

\* downloaded.append(output_path)
AppendClip(clips, output_path) == Append(clips, output_path)

\* The loop body after download_video has returned r, lines 325-326; an
\* error download_video lets out leaves fetch_visuals.
AfterCall(r, io) ==
    /\ files' = r.files
    /\ log' = log \o r.log
    /\ quality_log' = _append_quality_log(quality_log, r.log, log_writable)
    /\ last_call' = CallRecord(keywords[i], i, io, r.ret)
    /\ searched' = searched \cup {i}
    /\ used_ids' = r.used_ids
    /\ cache' = r.cache
    /\ downloaded' = IF r.ret = "True" THEN AppendClip(downloaded, VideoPath(i)) ELSE downloaded
    /\ i' = IF r.ret = "raised" THEN i ELSE i + 1
    /\ pc' = IF r.ret = "raised" THEN "raised" ELSE "loop"

Call(io) == AfterCall(download_video(keywords[i], VideoPath(i), i, io), io)

\* One pass of the loop of fetch_visuals, lines 318-326, in which
\* download_video returns (or lets an error out, which fetch_visuals does
\* not catch).  The environment decides the outcome of the search, of the
\* download, of the cache write, the order of the cache listing and the
\* outcome of the copy from the cache; what the call does not read is held
\* at one value.
DownloadVideo ==
    /\ pc = "loop"
    /\ i <= Len(keywords)
    /\ \E search \in SearchOutcomes :
       \E dl_ok \in IF ReachesDownload(keywords[i], search) THEN BOOLEAN ELSE {TRUE} :
       \E live \in {ReachesDownload(keywords[i], search) /\ dl_ok} :
       \E store_ok \in IF live /\ ENABLE_VISUAL_CACHE THEN BOOLEAN ELSE {TRUE} :
       \E listing \in IF live THEN {<<>>} ELSE Listings(cache) :
       \E copy_ok \in IF live \/ _find_cached_clip(keywords[i], listing) = None
                      THEN {TRUE} ELSE BOOLEAN :
          Call(IO(search, dl_ok, store_ok, copy_ok, listing))
    /\ UNCHANGED <<cfg_vars, aux_vars, ex_vars, sel_vars, asm_vars, script_text, keywords>>

AfterInterruptedCall(r) ==
    /\ r.reached
    /\ files' = r.files
    /\ used_ids' = r.used_ids
    /\ cache' = r.cache
    /\ searched' = searched \cup {i}

\* The loop that goes on after a KeyboardInterrupt: a plausible slip.
AfterInterrupt_continue == "loop"

\* except KeyboardInterrupt: ... break
AfterInterrupt == "fetched"

\* One pass of the loop in which a KeyboardInterrupt arrives inside
\* download_video, lines 320-324.
DownloadVideoInterrupted ==
    /\ pc = "loop"
    /\ i <= Len(keywords)
    /\ \E point \in InterruptPoints :
       \E io \in InterruptIOs(keywords[i], point) :
          /\ AfterInterruptedCall(
                download_video_interrupted(keywords[i], VideoPath(i), i, io, point))
          /\ last_call' = [scene |-> i, ret |-> "KeyboardInterrupt", stage |-> point]
    /\ pc' = AfterInterrupt
    /\ i' = IF AfterInterrupt = "loop" THEN i + 1 ELSE i
    /\ UNCHANGED <<cfg_vars, aux_vars, ex_vars, sel_vars, asm_vars, script_text, keywords, downloaded,
                   log, quality_log>>

\* The loop is over: return downloaded.
FetchReturn ==
    /\ pc = "loop"
    /\ i > Len(keywords)
    /\ pc' = "fetched"
    /\ UNCHANGED <<cfg_vars, aux_vars, ex_vars, sel_vars, asm_vars, script_text, keywords, i,
                   downloaded, used_ids, files, cache, log, quality_log, searched, last_call>>

CfgFetch ==
    /\ PEXELS_API_KEY \in BOOLEAN
    /\ MAX_VISUAL_DOWNLOADS = DefaultMaxVisualDownloads
    /\ ENABLE_VISUAL_CACHE \in BOOLEAN
    /\ PEXELS_MAX_RETRIES = DefaultMaxRetries
    /\ log_writable \in BOOLEAN
    /\ files_removable \in BOOLEAN

(***************************************************************************)
(* video_creator.py: the assembler                                         *)
(***************************************************************************)
\* The length of one frame at the fps=24 of the normalizer, in ms, rounded
\* down.
FrameMs == 41
\* abs(duration - target_duration) < 0.1, in ms.
ToleranceMs == 100
\* final_duration = 30.0, in ms.
DefaultFinalDuration == 30000

Abs(x) == IF x < 0 THEN -x ELSE x
Min(a, b) == IF a < b THEN a ELSE b
Max(a, b) == IF a > b THEN a ELSE b

NoResult == [status |-> "pending"]
Raised(error) == [status |-> "raised", error |-> error]
ReturnedPath(path) == [status |-> "returned", value |-> path]

\* f"temp_fallback_{index}.mp4", the output file and the temporary files.
FallbackPath(index) == [kind |-> "fallback", n |-> index, norm |-> <<>>]
OutputFile == [kind |-> "output", n |-> 0, norm |-> <<>>]
ConcatList == [kind |-> "concat_list", n |-> 0, norm |-> <<>>]
TempConcat == [kind |-> "temp_concat", n |-> 0, norm |-> <<>>]
TempAudio == [kind |-> "audio_temp", n |-> 0, norm |-> <<>>]

\* video_path.replace(".mp4", f"_{target_duration:.2f}s.mp4")
NormPath(video_path, target) == [video_path EXCEPT !.norm = Append(@, target)]

\* Whether ffprobe and ffmpeg can read the file: a file left by an
\* interrupted copy cannot be read.
Readable(fs, path) ==
    /\ path \in DOMAIN fs
    /\ "duration" \in DOMAIN fs[path]
    /\ ("partial" \in DOMAIN fs[path] => ~fs[path].partial)

\* get_video_duration and get_media_duration, in ms: 0 without ffprobe or
\* when the output of ffprobe is not a number.
get_video_duration(fs, video_path) ==
    IF ~tools.ffprobe \/ ~Readable(fs, video_path) THEN 0 ELSE fs[video_path].duration

get_media_duration(audio) ==
    IF ~tools.ffprobe THEN 0 ELSE audio.duration

\* How the encoder run by ensure_exact_duration can end: well, or by an
\* error before it has written anything, or by an error that leaves what it
\* had written.  _run does not look at the return code.
EncodeOutcomes == {"ok", "error", "error_partial"}

\* The re-encode of ensure_exact_duration: the file the command leaves at
\* output_path.  On an input it cannot read, ffmpeg stops before it opens
\* the output.
Reencode(fs, video_path, output_path, target, how) ==
    IF ~Readable(fs, video_path) \/ how = "error" THEN fs
    ELSE IF how = "ok"
    THEN WriteFile(fs, output_path, [duration |-> target, of |-> video_path])
    ELSE WriteFile(fs, output_path, [partial |-> TRUE])

\* A return of output_path that does not look whether the file is there: a
\* plausible slip.
ReencodeResult_unchecked(fs, video_path, output_path) ==
    [path |-> output_path, files |-> fs]

\* return output_path if os.path.exists(output_path) else video_path
ReencodeResult(fs, video_path, output_path) ==
    [path |-> IF output_path \in DOMAIN fs THEN output_path ELSE video_path,
     files |-> fs]

\* A normalizer that re-encodes whatever the probe says: a plausible slip.
EnsureFrom_always(fs, video_path, target, how, duration) ==
    ReencodeResult(Reencode(fs, video_path, NormPath(video_path, target), target, how),
                   video_path, NormPath(video_path, target))

EnsureFrom(fs, video_path, target, how, duration) ==
    IF duration > 0 /\ Abs(duration - target) < ToleranceMs
    THEN [path |-> video_path, files |-> fs]
    ELSE ReencodeResult(Reencode(fs, video_path, NormPath(video_path, target), target, how),
                        video_path, NormPath(video_path, target))

\* ensure_exact_duration on the disk fs: the path it returns and the disk
\* it leaves.
ensure_exact_duration(fs, video_path, target, how) ==
    EnsureFrom(fs, video_path, target, how, get_video_duration(fs, video_path))

\* colors of create_fallback_clip, and colors[index % len(colors)].
colors == <<"blue", "green", "red", "purple", "orange", "cyan", "magenta", "yellow">>

\* A palette that does not cycle: a plausible slip.
ColorOf_clamped(index) == colors[Min(index, Len(colors) - 1) + 1]

ColorOf(index) == colors[(index % Len(colors)) + 1]

\* The command create_fallback_clip runs for the 0-based position index.
FallbackCmd(index, duration) ==
    [output_path |-> FallbackPath(index),
     color |-> ColorOf(index),
     text |-> <<"Scene", index + 1>>,
     duration |-> duration]

\* create_fallback_clip: the disk after the command, which writes the clip
\* when ffmpeg can run it.
create_fallback_clip(fs, cmd) ==
    IF tools.drawtext
    THEN WriteFile(fs, cmd.output_path,
                   [duration |-> cmd.duration, color |-> cmd.color, text |-> cmd.text])
    ELSE fs

\* while len(clips) < expected_clips: clips.append(create_fallback_clip(...))
RECURSIVE AddFallbacks(_, _, _, _, _)
AddFallbacks(clips, expected, duration, fs, cmds) ==
    IF Len(clips) >= expected THEN [clips |-> clips, files |-> fs, cmds |-> cmds]
    ELSE AddFallbacks(Append(clips, FallbackPath(Len(clips))), expected, duration,
                      create_fallback_clip(fs, FallbackCmd(Len(clips), duration)),
                      Append(cmds, FallbackCmd(Len(clips), duration)))

\* existing = [v for v in video_files if v and os.path.exists(v)]
Existing(fs, paths) == SelectSeq(paths, LAMBDA v : v \in DOMAIN fs)

\* _ensure_clip_count: the list it returns, the disk it leaves and the
\* commands it ran.
_ensure_clip_count(fs, paths, expected, duration) ==
    AddFallbacks(Prefix(Existing(fs, paths), expected), expected, duration, fs, <<>>)

\* processed = [ensure_exact_duration(v, per_clip, ffmpeg_bin) for v in
\* source_files]; the re-encode of position fail.at ends as fail.how says.
RECURSIVE NormalizeAll(_, _, _, _, _, _)
NormalizeNext(sources, at, target, fail, done, r) ==
    NormalizeAll(sources, at + 1, target, fail, r.files, Append(done, r.path))

NormalizeAll(sources, at, target, fail, fs, done) ==
    IF at > Len(sources) THEN [processed |-> done, files |-> fs]
    ELSE NormalizeNext(sources, at, target, fail, done,
                       ensure_exact_duration(fs, sources[at], target,
                                             IF at = fail.at THEN fail.how ELSE "ok"))

\* The positions at which ensure_exact_duration runs the re-encode.
Reencoded(fs, sources, target) ==
    {at \in 1..Len(sources) :
        ~(get_video_duration(fs, sources[at]) > 0
          /\ Abs(get_video_duration(fs, sources[at]) - target) < ToleranceMs)}

\* final_duration as lines 292-296 compute it.
FinalDuration(target, audio) ==
    IF target > 0 THEN target
    ELSE IF get_media_duration(audio) > 0 THEN get_media_duration(audio)
    ELSE DefaultFinalDuration

\* clip_count = max(1, int(expected_clips))
ClipCount(expected) == Max(1, expected)

\* per_clip without the division: a plausible slip.
PerClip_undivided(final, count) == final

\* per_clip = final_duration / clip_count
PerClip(final, count) == final \div count

\* The total length of the clips of a concat list.
Durations(fs, paths) == [k \in 1..Len(paths) |-> fs[paths[k]].duration]

\* What the final mux writes: the video stream and the audio stream, both
\* cut at final_duration by -t.
MuxOutput(fs, audio, prepared, final) ==
    [video |-> Min(fs[TempConcat].duration, final),
     audio |-> IF prepared THEN final ELSE Min(audio.duration, final)]

\* A cleanup that forgets the prepared audio: a plausible slip.
Cleanup_without_audio(fs) == RemoveFile(RemoveFile(fs, ConcatList), TempConcat)

\* for path in ["concat_list.txt", temp_concat, temp_audio]: os.remove(path)
Cleanup(fs) == RemoveFile(RemoveFile(RemoveFile(fs, ConcatList), TempConcat), TempAudio)

\* What the machine can offer: ffmpeg, ffprobe next to it, and an ffmpeg that
\* can draw the placeholder.
ToolSets ==
    {[ffmpeg |-> FALSE, ffprobe |-> FALSE, drawtext |-> FALSE]}
        \cup {[ffmpeg |-> TRUE, ffprobe |-> p, drawtext |-> d] : p, d \in BOOLEAN}

\* target_duration as the caller passes it (0: follow the voiceover), and
\* the length of the voiceover, in ms.
Targets == {0, 25200}
AudioMs == 50400

\* The clips handed to create_video_ffmpeg, by how their length compares to
\* per_clip; a missing one is a path with no file behind it.
ClipKinds == {"missing", "near", "long", "short"}

KindDuration(kind, target) ==
    CASE kind = "near" -> target - 50
      [] kind = "long" -> target + 5000
      [] kind = "short" -> 1000

InputDisk(kinds, target) ==
    [q \in {VideoPath(j) : j \in {k \in 1..Len(kinds) : kinds[k] # "missing"}} |->
        [src |-> q.n, duration |-> KindDuration(kinds[q.n], target), partial |-> FALSE]]

AsmLocalsInit ==
    /\ final_duration = 0
    /\ clip_count = 0
    /\ per_clip = 0
    /\ source_files = <<>>
    /\ processed = <<>>
    /\ fallback_cmds = <<>>
    /\ r1 = "none"
    /\ r2 = "none"
    /\ audio_prep = "none"
    /\ result = NoResult

AsmIdle ==
    /\ asm_pc = "idle"
    /\ tools = [ffmpeg |-> TRUE, ffprobe |-> TRUE, drawtext |-> TRUE]
    /\ video_files = <<>>
    /\ audio_file = [duration |-> AudioMs]
    /\ target_duration = 0
    /\ expected_clips = 0
    /\ AsmLocalsInit

DiskInit(kinds) ==
    /\ video_files = [j \in 1..Len(kinds) |-> VideoPath(j)]
    /\ files = InputDisk(kinds, PerClip(FinalDuration(target_duration, audio_file),
                                       ClipCount(expected_clips)))

AsmInit ==
    /\ asm_pc = "start"
    /\ tools \in ToolSets
    /\ audio_file = [duration |-> AudioMs]
    /\ target_duration \in Targets
    /\ expected_clips \in 0..MaxExpected
    /\ \E kinds \in SeqsUpTo(ClipKinds, MaxClips) : DiskInit(kinds)
    /\ AsmLocalsInit

\* A check that lets a missing binary through: a plausible slip.
FfmpegMissing_never(found) == FALSE

\* if not ffmpeg_bin, with ffmpeg_bin = _resolve_ffmpeg_bin()
FfmpegMissing(found) == ~found.ffmpeg

\* create_video_ffmpeg up to per_clip, lines 288-298.
CreateVideoStart ==
    /\ asm_pc = "start"
    /\ IF FfmpegMissing(tools)
       THEN /\ asm_pc' = "raised"
            /\ result' = Raised("FFmpeg binary not found")
            /\ UNCHANGED <<final_duration, clip_count, per_clip>>
       ELSE /\ asm_pc' = "clips"
            /\ final_duration' = FinalDuration(target_duration, audio_file)
            /\ clip_count' = ClipCount(expected_clips)
            /\ per_clip' = PerClip(final_duration', clip_count')
            /\ UNCHANGED result
    /\ UNCHANGED <<cfg_vars, aux_vars, ex_vars, sel_vars, fetch_vars, tools, video_files, audio_file,
                   target_duration, expected_clips, source_files, processed,
                   fallback_cmds, r1, r2, audio_prep>>

AfterEnsureClipCount(r) ==
    /\ source_files' = r.clips
    /\ files' = r.files
    /\ fallback_cmds' = r.cmds

\* source_files = _ensure_clip_count(video_files or [], clip_count, per_clip,
\* ffmpeg_bin), line 300.
EnsureClipCount ==
    /\ asm_pc = "clips"
    /\ AfterEnsureClipCount(_ensure_clip_count(files, video_files, clip_count, per_clip))
    /\ asm_pc' = "normalize"
    /\ UNCHANGED <<cfg_vars, aux_vars, ex_vars, sel_vars, fetch_rest, tools, video_files, audio_file,
                   target_duration, expected_clips, final_duration, clip_count, per_clip,
                   processed, r1, r2, audio_prep, result>>

AfterNormalize(r) ==
    /\ processed' = r.processed
    /\ files' = r.files

\* The list comprehension of line 301.  The environment lets every re-encode
\* go through (fail.at = 0) or makes one of them fail.
EnsureExactDurations ==
    /\ asm_pc = "normalize"
    /\ \E fail \in {[at |-> 0, how |-> "ok"]}
                    \cup {[at |-> a, how |-> h] :
                            a \in Reencoded(files, source_files, per_clip),
                            h \in EncodeOutcomes \ {"ok"}} :
          AfterNormalize(NormalizeAll(source_files, 1, per_clip, fail, files, <<>>))
    /\ asm_pc' = "concat"
    /\ UNCHANGED <<cfg_vars, aux_vars, ex_vars, sel_vars, fetch_rest, tools, video_files, audio_file,
                   target_duration, expected_clips, final_duration, clip_count, per_clip,
                   source_files, fallback_cmds, r1, r2, audio_prep, result>>

\* if r1.returncode != 0: raise RuntimeError
OnConcatFailure == "raised"

\* A failed mux that still returns the output path: a plausible slip.
OnMuxFailure_ignored == "done"

\* if r2.returncode != 0: raise RuntimeError
OnMuxFailure == "raised"

WithConcatList(fs) == WriteFile(fs, ConcatList, [entries |-> processed])

\* The concat list is written and the concat command is run, lines 303-310.
\* The command fails when a listed file is missing, or when the environment
\* makes it fail.
Concat ==
    /\ asm_pc = "concat"
    /\ \E ok \in BOOLEAN :
          IF ok /\ \A k \in 1..Len(processed) : Readable(files, processed[k])
          THEN /\ files' = WriteFile(WithConcatList(files), TempConcat,
                                     [duration |-> SumSeq(Durations(files, processed))])
               /\ r1' = "ok"
               /\ asm_pc' = "mux"
               /\ UNCHANGED result
          ELSE /\ files' = WithConcatList(files)
               /\ r1' = "failed"
               /\ asm_pc' = OnConcatFailure
               /\ result' = IF OnConcatFailure = "raised"
                            THEN Raised("Video concat failed") ELSE result
    /\ UNCHANGED <<cfg_vars, aux_vars, ex_vars, sel_vars, fetch_rest, tools, video_files, audio_file,
                   target_duration, expected_clips, final_duration, clip_count, per_clip,
                   source_files, processed, fallback_cmds, r2, audio_prep>>

\* How the command of _prepare_final_audio can end: well, or by an error
\* before it has written anything, or by an error that leaves what it had
\* written.
PrepareOutcomes == {"ok", "failed", "failed_partial"}

\* _prepare_final_audio: the disk the command leaves.
WithTempAudio(fs, prepared) ==
    CASE prepared = "ok" -> WriteFile(fs, TempAudio, [duration |-> final_duration])
      [] prepared = "failed_partial" -> WriteFile(fs, TempAudio, [partial |-> TRUE])
      [] OTHER -> fs

\* What a failed mux can leave at output_file.
WithPartialOutput(fs, left) ==
    IF left THEN WriteFile(fs, OutputFile, [partial |-> TRUE]) ELSE fs

\* The audio is prepared, the mux command is run, the temporary files are
\* removed and output_file is returned, lines 312-351.
Mux ==
    /\ asm_pc = "mux"
    /\ \E prepared \in PrepareOutcomes :
       \E ok \in BOOLEAN :
       \E left \in IF ok THEN {FALSE} ELSE BOOLEAN :
          IF ok /\ Readable(files, TempConcat)
          THEN /\ files' = Cleanup(WriteFile(WithTempAudio(files, prepared), OutputFile,
                                             MuxOutput(files, audio_file, prepared = "ok", final_duration)))
               /\ r2' = "ok"
               /\ audio_prep' = prepared
               /\ asm_pc' = "done"
               /\ result' = ReturnedPath(OutputFile)
          ELSE /\ files' = WithPartialOutput(WithTempAudio(files, prepared), left)
               /\ r2' = "failed"
               /\ audio_prep' = prepared
               /\ asm_pc' = OnMuxFailure
               /\ result' = IF OnMuxFailure = "raised"
                            THEN Raised("Final mux failed") ELSE ReturnedPath(OutputFile)
    /\ UNCHANGED <<cfg_vars, aux_vars, ex_vars, sel_vars, fetch_rest, tools, video_files, audio_file,
                   target_duration, expected_clips, final_duration, clip_count, per_clip,
                   source_files, processed, fallback_cmds, r1>>

(***************************************************************************)
(* _search_video: the search request and its retries                       *)
(***************************************************************************)
\* PEXELS_RETRY_BACKOFF_SECONDS with the variable unset (1.5 s), in ms.
PEXELS_RETRY_BACKOFF_MS == 1500

\* The setting of the runs of _search_video and _download_with_retry.
CfgRetry ==
    /\ PEXELS_API_KEY = TRUE
    /\ MAX_VISUAL_DOWNLOADS = DefaultMaxVisualDownloads
    /\ ENABLE_VISUAL_CACHE = TRUE
    /\ PEXELS_MAX_RETRIES \in 0..MaxRetriesCfg
    /\ log_writable = TRUE
    /\ files_removable = TRUE

\* What a failed request raises: requests.get, raise_for_status or the
\* decoding of the body.
SearchErrors == {"ConnectionError", "HTTPError", "JSONDecodeError"}

\* The bodies of a successful request; "videos" may be missing or empty.
SearchResponses == {r \in RunResponses : Len(r) <= 1}

\* A wait after every failed attempt, the last one too: a plausible slip.
SleepAfter_always(attempt) == <<PEXELS_RETRY_BACKOFF_MS * attempt>>

\* if attempt < PEXELS_MAX_RETRIES: time.sleep(PEXELS_RETRY_BACKOFF_SECONDS *
\* attempt): the waits added after the failure of `attempt`.
SleepAfter(attempt) ==
    IF attempt < PEXELS_MAX_RETRIES THEN <<PEXELS_RETRY_BACKOFF_MS * attempt>> ELSE <<>>

\* The error raised once the loop is over: what failed, after how many
\* attempts, and the last error caught.
Exhausted(what, last_exc) ==
    Raised([what |-> what, attempts |-> PEXELS_MAX_RETRIES, last_exc |-> last_exc])

SrIdle ==
    /\ sr_pc = "idle"
    /\ sr_attempt = 0
    /\ sr_last_exc = "None"
    /\ sr_requests = <<>>
    /\ sr_sleeps = <<>>
    /\ sr_out = NoResult

SrInit ==
    /\ sr_pc = "loop"
    /\ sr_attempt = 1
    /\ sr_last_exc = "None"
    /\ sr_requests = <<>>
    /\ sr_sleeps = <<>>
    /\ sr_out = NoResult

\* One pass of the loop of _search_video, lines 111-119: the request, and
\* either the return of its videos or the catch of its error and the wait.
SearchAttempt ==
    /\ sr_pc = "loop"
    /\ sr_attempt <= PEXELS_MAX_RETRIES
    /\ \E outcome \in {"ok"} \cup SearchErrors :
       \E videos \in IF outcome = "ok" THEN SearchResponses ELSE {<<>>} :
          /\ sr_requests' = Append(sr_requests, outcome)
          /\ IF outcome = "ok"
             THEN /\ sr_pc' = "returned"
                  /\ sr_out' = ReturnedPath(videos)
                  /\ UNCHANGED <<sr_attempt, sr_last_exc, sr_sleeps>>
             ELSE /\ sr_last_exc' = outcome
                  /\ sr_sleeps' = sr_sleeps \o SleepAfter(sr_attempt)
                  /\ sr_attempt' = sr_attempt + 1
                  /\ UNCHANGED <<sr_pc, sr_out>>
    /\ UNCHANGED <<cfg_vars, pipe_vars, pure_vars, ex_vars, sel_vars, fetch_vars, asm_vars, nrm_vars, dl_vars, lk_vars>>

\* The loop is over: raise RuntimeError, line 121.
SearchRaise ==
    /\ sr_pc = "loop"
    /\ sr_attempt > PEXELS_MAX_RETRIES
    /\ sr_pc' = "raised"
    /\ sr_out' = Exhausted("Pexels search failed", sr_last_exc)
    /\ UNCHANGED <<cfg_vars, pipe_vars, pure_vars, ex_vars, sel_vars, fetch_vars, asm_vars, nrm_vars, dl_vars, lk_vars,
                   sr_attempt, sr_last_exc, sr_requests, sr_sleeps>>

(***************************************************************************)
(* _download_with_retry: the streamed download and its retries             *)
(***************************************************************************)
\* Time is counted in units of 4 s: MAX_DOWNLOAD_SECONDS with the variable
\* unset (20 s), and the read timeout of requests.get (8 s), the longest
\* wait for the response or for the next chunk.
MAX_DOWNLOAD_SECONDS == 5
ReadTimeout == 2
\* MAX_DOWNLOAD_BYTES, set to 3 bytes in the environment, and the largest
\* chunk iter_content yields here.
MAX_DOWNLOAD_BYTES == 3
MaxChunk == 2

\* An elapsed time past the limit is kept as the first value past it.
Later(elapsed, dt) == Min(elapsed + dt, MAX_DOWNLOAD_SECONDS + 1)

\* What is known of an attempt that has ended: how it ended, whether it
\* lasted longer than MAX_DOWNLOAD_SECONDS, whether it received more than
\* MAX_DOWNLOAD_BYTES, the bytes it wrote and what it left at output_path.
AttemptRecord(outcome, elapsed, total, written, left) ==
    [outcome |-> outcome,
     late |-> elapsed > MAX_DOWNLOAD_SECONDS,
     over |-> total > MAX_DOWNLOAD_BYTES,
     written |-> written,
     file |-> left]

NoAttempt == AttemptRecord("none", 0, 0, 0, "absent")

\* last_exc kept from the first failure on: a plausible slip.
LastExc_first(prev, exc) == IF prev = "None" THEN exc ELSE prev

\* last_exc = exc
LastExc(prev, exc) == exc

DlIdle ==
    /\ dl_pc = "idle"
    /\ dl_attempt = 0
    /\ dl_last_exc = "None"
    /\ dl_elapsed = 0
    /\ dl_total = 0
    /\ dl_written = 0
    /\ dl_file = "absent"
    /\ dl_last = NoAttempt
    /\ dl_outcomes = <<>>
    /\ dl_sleeps = <<>>
    /\ dl_out = NoResult

\* Before the loop; output_path may hold the clip of an earlier run.
DlInit ==
    /\ dl_pc = "attempt"
    /\ dl_attempt = 1
    /\ dl_last_exc = "None"
    /\ dl_elapsed = 0
    /\ dl_total = 0
    /\ dl_written = 0
    /\ dl_file \in {"absent", "old"}
    /\ dl_last = NoAttempt
    /\ dl_outcomes = <<>>
    /\ dl_sleeps = <<>>
    /\ dl_out = NoResult

\* The except clause of the loop, lines 223-231: the error is kept, the file
\* at output_path is removed, and the wait follows when an attempt is left.
AttemptFailed(exc, elapsed, total, written) ==
    /\ dl_last_exc' = LastExc(dl_last_exc, exc)
    /\ dl_outcomes' = Append(dl_outcomes, exc)
    /\ dl_last' = AttemptRecord(exc, elapsed, total, written, "absent")
    /\ dl_file' = "absent"
    /\ dl_sleeps' = dl_sleeps \o SleepAfter(dl_attempt)
    /\ dl_attempt' = dl_attempt + 1
    /\ dl_pc' = "attempt"
    /\ dl_elapsed' = 0
    /\ dl_total' = 0
    /\ dl_written' = 0
    /\ UNCHANGED dl_out

\* The start of an attempt, lines 208-212: the clock is read, the request is
\* sent, and on a good status output_path is opened for writing.
DownloadGet ==
    /\ dl_pc = "attempt"
    /\ dl_attempt <= PEXELS_MAX_RETRIES
    /\ \E outcome \in {"ok", "ConnectionError", "HTTPError"} :
       \E dt \in {0, ReadTimeout} :
          IF outcome = "ok"
          THEN /\ dl_pc' = "stream"
               /\ dl_elapsed' = dt
               /\ dl_total' = 0
               /\ dl_written' = 0
               /\ dl_file' = "new"
               /\ UNCHANGED <<dl_attempt, dl_last_exc, dl_last, dl_outcomes, dl_sleeps, dl_out>>
          ELSE AttemptFailed(outcome, dt, 0, 0)
    /\ UNCHANGED <<cfg_vars, pipe_vars, pure_vars, ex_vars, sel_vars, fetch_vars, asm_vars, nrm_vars, sr_vars, lk_vars>>

\* One chunk of iter_content, lines 213-221, arriving dt after the last one.
DownloadChunk ==
    /\ dl_pc = "stream"
    /\ \E size \in 0..MaxChunk :
       \E dt \in 0..ReadTimeout :
          IF size = 0
          THEN /\ dl_elapsed' = Later(dl_elapsed, dt)
               /\ UNCHANGED <<dl_pc, dl_attempt, dl_last_exc, dl_total, dl_written, dl_file,
                              dl_last, dl_outcomes, dl_sleeps, dl_out>>
          ELSE IF Later(dl_elapsed, dt) > MAX_DOWNLOAD_SECONDS
          THEN AttemptFailed("TimeoutError: time limit", Later(dl_elapsed, dt),
                             dl_total, dl_written)
          ELSE IF dl_total + size > MAX_DOWNLOAD_BYTES
          THEN AttemptFailed("TimeoutError: too large", Later(dl_elapsed, dt),
                             dl_total + size, dl_written)
          ELSE /\ dl_elapsed' = Later(dl_elapsed, dt)
               /\ dl_total' = dl_total + size
               /\ dl_written' = dl_written + size
               /\ UNCHANGED <<dl_pc, dl_attempt, dl_last_exc, dl_file, dl_last, dl_outcomes,
                              dl_sleeps, dl_out>>
    /\ UNCHANGED <<cfg_vars, pipe_vars, pure_vars, ex_vars, sel_vars, fetch_vars, asm_vars, nrm_vars, sr_vars, lk_vars>>

\* The stream ends dt after the last chunk: by its end, and the function
\* returns (line 222), or by an error of the connection.
DownloadEnd ==
    /\ dl_pc = "stream"
    /\ \E outcome \in {"ok", "ChunkedEncodingError"} :
       \E dt \in 0..ReadTimeout :
          IF outcome = "ok"
          THEN /\ dl_pc' = "returned"
               /\ dl_out' = ReturnedPath(None)
               /\ dl_elapsed' = Later(dl_elapsed, dt)
               /\ dl_outcomes' = Append(dl_outcomes, "ok")
               /\ dl_last' = AttemptRecord("ok", Later(dl_elapsed, dt), dl_total,
                                           dl_written, "new")
               /\ UNCHANGED <<dl_attempt, dl_last_exc, dl_total, dl_written, dl_file, dl_sleeps>>
          ELSE AttemptFailed(outcome, Later(dl_elapsed, dt), dl_total, dl_written)
    /\ UNCHANGED <<cfg_vars, pipe_vars, pure_vars, ex_vars, sel_vars, fetch_vars, asm_vars, nrm_vars, sr_vars, lk_vars>>

\* The loop is over: raise RuntimeError, line 233.
DownloadRaise ==
    /\ dl_pc = "attempt"
    /\ dl_attempt > PEXELS_MAX_RETRIES
    /\ dl_pc' = "raised"
    /\ dl_out' = Exhausted("Video download failed", dl_last_exc)
    /\ UNCHANGED <<cfg_vars, pipe_vars, pure_vars, ex_vars, sel_vars, fetch_vars, asm_vars, nrm_vars, sr_vars, lk_vars,
                   dl_attempt, dl_last_exc, dl_elapsed, dl_total, dl_written, dl_file,
                   dl_last, dl_outcomes, dl_sleeps>>

(***************************************************************************)
(* _find_cached_clip on its own                                            *)
(***************************************************************************)
\* The files a cache directory can hold: clips stored for earlier queries,
\* and a file that is not an MP4 clip.
LookupPool ==
    { CacheEntry("103", <<"city", "robot">>, "mp4", 103),
      CacheEntry("local", <<"hallway", "arm">>, "mp4", NoId),
      CacheEntry("101", <<"x", "ray">>, "mp4", 101),
      CacheEntry("104", <<"harbour">>, "mp4", 104),
      CacheEntry("102", <<"robot", "hospital", "hallway">>, "part", 102) }

CfgLookup ==
    /\ PEXELS_API_KEY = TRUE
    /\ MAX_VISUAL_DOWNLOADS = DefaultMaxVisualDownloads
    /\ ENABLE_VISUAL_CACHE \in BOOLEAN
    /\ PEXELS_MAX_RETRIES = DefaultMaxRetries
    /\ log_writable = TRUE
    /\ files_removable = TRUE

LkIdle ==
    /\ lk_entries = {}
    /\ lk_query = <<>>
    /\ lk_listing = <<>>
    /\ lk_out = Pending

\* A directory that is missing is one with no file.
LkInit ==
    /\ lk_entries \in {S \in SUBSET LookupPool : Cardinality(S) <= MaxEntries}
    /\ lk_query \in QueryPool
    /\ lk_listing = <<>>
    /\ lk_out = Pending

FindCachedClip ==
    /\ ~lk_out.done
    /\ \E listing \in Listings(lk_entries) :
          /\ lk_listing' = listing
          /\ lk_out' = Returned(_find_cached_clip(lk_query, listing))
    /\ UNCHANGED <<cfg_vars, pipe_vars, pure_vars, ex_vars, sel_vars, fetch_vars, asm_vars, nrm_vars, sr_vars, dl_vars,
                   lk_entries, lk_query>>

(***************************************************************************)
(* ensure_exact_duration on its own, applied to its own result             *)
(***************************************************************************)
\* Most calls of ensure_exact_duration in a row.
MaxNormCalls == 3

\* The targets, in ms: per_clip for a 50.4 s voiceover over 8 clips, and 7.5 s.
NormTargets == {6300, 7500}

\* What lies at video_1.mp4 before the first call: nothing, a clip by its
\* length, or a file the probe and the encoder cannot read.
NormKinds == ClipKinds \cup {"unreadable"}

NormClip(kind, target) ==
    CASE kind = "missing" -> NoFiles
      [] kind = "unreadable" ->
            WriteFile(NoFiles, VideoPath(1), [src |-> 1, duration |-> 0, partial |-> TRUE])
      [] OTHER ->
            WriteFile(NoFiles, VideoPath(1),
                      [src |-> 1, duration |-> KindDuration(kind, target), partial |-> FALSE])

\* The disk before the first call.  Nothing deletes the files the normalizer
\* writes, so an earlier run with the same target may have left its own
\* video_1_<target>s.mp4.
NormDisk(kind, target, stale) ==
    IF stale
    THEN WriteFile(NormClip(kind, target), NormPath(VideoPath(1), target),
                   [duration |-> target, of |-> VideoPath(1), run |-> "earlier"])
    ELSE NormClip(kind, target)

NrmIdle ==
    /\ nrm_path = VideoPath(1)
    /\ nrm_target = 0
    /\ nrm_calls = <<>>

NrmInit ==
    /\ nrm_path = VideoPath(1)
    /\ nrm_target \in NormTargets
    /\ nrm_calls = <<>>
    /\ tools \in {t \in ToolSets : t.ffmpeg /\ t.drawtext}
    /\ \E kind \in NormKinds, stale \in BOOLEAN : files = NormDisk(kind, nrm_target, stale)
    /\ asm_pc = "idle"
    /\ video_files = <<>>
    /\ audio_file = [duration |-> AudioMs]
    /\ target_duration = 0
    /\ expected_clips = 0
    /\ AsmLocalsInit

\* What the history keeps of one call: the path it was given, what the probe
\* said of it, whether the encoder was run and how it ended, whether a file
\* was already at the output path, the path returned and whether the disk
\* changed.
AfterEnsureExactDuration(r, how) ==
    /\ files' = r.files
    /\ nrm_path' = r.path
    /\ nrm_calls' = Append(nrm_calls,
            [input |-> nrm_path,
             probed |-> get_video_duration(files, nrm_path),
             readable |-> Readable(files, nrm_path),
             encoded |-> Reencoded(files, <<nrm_path>>, nrm_target) # {},
             how |-> how,
             stale |-> NormPath(nrm_path, nrm_target) \in DOMAIN files,
             output |-> r.path,
             changed |-> r.files # files])

\* One call ensure_exact_duration(nrm_path, nrm_target, ffmpeg_bin); the next
\* call is given the path this one returns.
EnsureExactDuration ==
    /\ Len(nrm_calls) < MaxNormCalls
    /\ \E how \in IF Reencoded(files, <<nrm_path>>, nrm_target) = {}
                   THEN {"ok"} ELSE EncodeOutcomes :
          AfterEnsureExactDuration(
              ensure_exact_duration(files, nrm_path, nrm_target, how), how)
    /\ UNCHANGED <<cfg_vars, pipe_vars, pure_vars, ex_vars, sel_vars, fetch_rest, asm_vars, nrm_target,
                   sr_vars, dl_vars, lk_vars>>

(***************************************************************************)
(* pipeline.py: fetch_visuals followed by create_video                     *)
(***************************************************************************)
\* What run_pipeline reads before it fetches: TARGET_VIDEO_DURATION_SECONDS
\* (unset, as the other settings of CfgPipe: float(os.getenv(..., "0"))),
\* the voiceover it has generated, and the tooling of the machine.
PipeAsmInit ==
    /\ asm_pc = "idle"
    /\ tools \in {t \in ToolSets : t.ffmpeg => t.ffprobe}
    /\ video_files = <<>>
    /\ audio_file = [duration |-> AudioMs]
    /\ target_duration = 0
    /\ expected_clips = 0
    /\ AsmLocalsInit

\* The environment of run_pipeline: the key may be missing from .env, and
\* MAX_VISUAL_DOWNLOADS is unset or set to a small count.
CfgPipe ==
    /\ PEXELS_API_KEY \in BOOLEAN
    /\ MAX_VISUAL_DOWNLOADS \in {0, 1, DefaultMaxVisualDownloads}
    /\ ENABLE_VISUAL_CACHE = TRUE
    /\ PEXELS_MAX_RETRIES = DefaultMaxRetries
    /\ log_writable = TRUE
    /\ files_removable = TRUE

\* A call that asks the assembler for one clip less than the limit of the
\* fetcher: a plausible slip.
CreateVideoCall_one_short ==
    /\ pc = "fetched"
    /\ asm_pc = "idle"
    /\ asm_pc' = "start"
    /\ video_files' = downloaded
    /\ expected_clips' = MAX_VISUAL_DOWNLOADS - 1
    /\ UNCHANGED <<cfg_vars, aux_vars, ex_vars, sel_vars, fetch_vars, tools, audio_file,
                   target_duration, final_duration, clip_count, per_clip, source_files,
                   processed, fallback_cmds, r1, r2, audio_prep, result>>

\* run_pipeline, lines 45-59: create_video is called with the list
\* fetch_visuals returned and expected_clips = MAX_VISUAL_DOWNLOADS.
CreateVideoCall ==
    /\ pc = "fetched"
    /\ asm_pc = "idle"
    /\ asm_pc' = "start"
    /\ video_files' = downloaded
    /\ expected_clips' = MAX_VISUAL_DOWNLOADS
    /\ UNCHANGED <<cfg_vars, aux_vars, ex_vars, sel_vars, fetch_vars, tools, audio_file,
                   target_duration, final_duration, clip_count, per_clip, source_files,
                   processed, fallback_cmds, r1, r2, audio_prep, result>>

(***************************************************************************)
(* run_pipeline after the assembly                                         *)
(***************************************************************************)
PipeIdle ==
    /\ pipeline_pc = "idle"
    /\ pipeline_steps = <<>>

\* run_pipeline has not gone past STEP 4/8.
PipeInit ==
    /\ pipeline_pc = "step4"
    /\ pipeline_steps = <<>>

\* An error of create_video caught and passed over by run_pipeline: a
\* plausible slip.
AfterCreateVideo_swallowed(where) == "step5"

\* final_video = create_video(...) with no try around it: an error of
\* create_video leaves run_pipeline.
AfterCreateVideo(where) == IF where = "raised" THEN "raised" ELSE "step5"

\* create_video has returned or raised, lines 53-59.
CreateVideoReturn ==
    /\ pipeline_pc = "step4"
    /\ asm_pc \in {"done", "raised"}
    /\ pipeline_pc' = AfterCreateVideo(asm_pc)
    /\ UNCHANGED <<cfg_vars, ex_vars, sel_vars, fetch_vars, asm_vars, nrm_vars, sr_vars,
                   dl_vars, lk_vars, pure_vars, pipeline_steps>>

\* One step of run_pipeline after the assembly: the step is started, and
\* it returns or lets an error out, which run_pipeline does not catch.
PipelineStep(at, name, next) ==
    /\ pipeline_pc = at
    /\ pipeline_steps' = Append(pipeline_steps, name)
    /\ \E ok \in BOOLEAN : pipeline_pc' = IF ok THEN next ELSE "raised"
    /\ UNCHANGED <<cfg_vars, ex_vars, sel_vars, fetch_vars, asm_vars, nrm_vars, sr_vars,
                   dl_vars, lk_vars, pure_vars>>

\* STEP 5/8: thumbnail_file = create_thumbnail(...)
CreateThumbnail == PipelineStep("step5", "thumbnail", "step6")

\* STEP 6/8: metadata = generate_seo_metadata(...)
GenerateSeoMetadata == PipelineStep("step6", "metadata", "step7")

\* STEP 7/8: srt_file, vtt_file = generate_subtitles(...)
GenerateSubtitles == PipelineStep("step7", "subtitles", "step8")

\* STEP 8/8 with ENABLE_YOUTUBE_UPLOAD=1: upload_video_to_youtube(...)
UploadVideo == PipelineStep("step8", "upload", "summary")

\* STEP 8/8 with ENABLE_YOUTUBE_UPLOAD unset or not "1": the upload is
\* skipped.
SkipUpload ==
    /\ pipeline_pc = "step8"
    /\ pipeline_pc' = "summary"
    /\ UNCHANGED <<cfg_vars, ex_vars, sel_vars, fetch_vars, asm_vars, nrm_vars, sr_vars,
                   dl_vars, lk_vars, pure_vars, pipeline_steps>>

\* with open("outputs/pipeline_summary.json", "w") as f: json.dump(...)
WriteSummary == PipelineStep("summary", "summary", "complete")

NextSteps ==
    \/ CreateVideoReturn
    \/ CreateThumbnail
    \/ GenerateSeoMetadata
    \/ GenerateSubtitles
    \/ UploadVideo
    \/ SkipUpload
    \/ WriteSummary

(***************************************************************************)
(* _pick_video_url and _score_video on their own                           *)
(***************************************************************************)
\* The encoded variants a video object can list: MP4 files of several
\* sizes, one that gives no size, one in portrait, one with no link, and a
\* file of another type.
VariantPool ==
    { Mp4("hd", 1920, 1080), Mp4("sd", 640, 360), Mp4("720p", 1280, 720),
      Mp4("qhd", 960, 540), Mp4("nosize", 0, 0), Mp4("portrait", 720, 1280),
      Mp4("", 1280, 720),
      [file_type |-> "video/webm", link |-> "webm", width |-> 1280, height |-> 720] }

PvIdle == pv_files = <<>> /\ pv_out = Pending

PvInit == pv_files \in SeqsUpTo(VariantPool, MaxVariants) /\ pv_out = Pending

PickVideoUrl ==
    /\ ~pv_out.done
    /\ pv_out' = Returned(_pick_video_url([video_files |-> pv_files]))
    /\ UNCHANGED <<cfg_vars, pipe_vars, ex_vars, sel_vars, fetch_vars, asm_vars, nrm_vars, sr_vars,
                   dl_vars, lk_vars, pv_files, sc_video, sc_query, sc_out>>

\* video.get("duration") as the API can give it, in seconds; 0 stands for a
\* missing one.
ScoreDurations == {0, 3, 4, 15, 16}

ScorePool == {[v EXCEPT !.duration = d] : v \in Catalogue, d \in ScoreDurations}

ScIdle == sc_video = None /\ sc_query = <<>> /\ sc_out = Pending

ScInit == sc_video \in ScorePool /\ sc_query \in QueryPool /\ sc_out = Pending

ScoreVideo ==
    /\ ~sc_out.done
    /\ sc_out' = Returned(_score_video(sc_video, sc_query))
    /\ UNCHANGED <<cfg_vars, pipe_vars, ex_vars, sel_vars, fetch_vars, asm_vars, nrm_vars, sr_vars,
                   dl_vars, lk_vars, pv_files, pv_out, sc_video, sc_query>>

(***************************************************************************)
(* Specifications                                                          *)
(***************************************************************************)
PureIdle == PvIdle /\ ScIdle

AuxIdle == NrmIdle /\ SrIdle /\ DlIdle /\ LkIdle /\ PureIdle /\ PipeIdle

Init == CfgFetch /\ ExIdle /\ SelIdle /\ FetchInit /\ AsmIdle /\ AuxIdle
Next == FetchStart \/ DownloadVideo \/ DownloadVideoInterrupted \/ FetchReturn
Spec == Init /\ [][Next]_vars

InitExtract == CfgInit /\ ExInit /\ SelIdle /\ FetchIdle /\ files = NoFiles /\ AsmIdle /\ AuxIdle
NextExtract == ExtractKeywords
SpecExtract == InitExtract /\ [][NextExtract]_vars

InitSelect == CfgDefault /\ ExIdle /\ SelInit /\ FetchIdle /\ files = NoFiles /\ AsmIdle /\ AuxIdle
NextSelect == SelectBestVideo
SpecSelect == InitSelect /\ [][NextSelect]_vars

InitAsm == CfgDefault /\ ExIdle /\ SelIdle /\ FetchIdle /\ AsmInit /\ AuxIdle
NextAsm == CreateVideoStart \/ EnsureClipCount \/ EnsureExactDurations \/ Concat \/ Mux
SpecAsm == InitAsm /\ [][NextAsm]_vars

InitNorm == CfgDefault /\ ExIdle /\ SelIdle /\ FetchIdle /\ NrmInit
                /\ SrIdle /\ DlIdle /\ LkIdle /\ PureIdle /\ PipeIdle
NextNorm == EnsureExactDuration
SpecNorm == InitNorm /\ [][NextNorm]_vars

InitSearch == CfgRetry /\ ExIdle /\ SelIdle /\ FetchIdle /\ files = NoFiles /\ AsmIdle
                  /\ NrmIdle /\ SrInit /\ DlIdle /\ LkIdle /\ PureIdle /\ PipeIdle
NextSearch == SearchAttempt \/ SearchRaise
SpecSearch == InitSearch /\ [][NextSearch]_vars

InitDownload == CfgRetry /\ ExIdle /\ SelIdle /\ FetchIdle /\ files = NoFiles /\ AsmIdle
                    /\ NrmIdle /\ SrIdle /\ DlInit /\ LkIdle /\ PureIdle /\ PipeIdle
NextDownload == DownloadGet \/ DownloadChunk \/ DownloadEnd \/ DownloadRaise
SpecDownload == InitDownload /\ [][NextDownload]_vars

InitLookup == CfgLookup /\ ExIdle /\ SelIdle /\ FetchIdle /\ files = NoFiles /\ AsmIdle
                  /\ NrmIdle /\ SrIdle /\ DlIdle /\ LkInit /\ PureIdle /\ PipeIdle
NextLookup == FindCachedClip
SpecLookup == InitLookup /\ [][NextLookup]_vars

InitPick == CfgDefault /\ ExIdle /\ SelIdle /\ FetchIdle /\ files = NoFiles /\ AsmIdle
                /\ NrmIdle /\ SrIdle /\ DlIdle /\ LkIdle /\ PvInit /\ ScIdle /\ PipeIdle
NextPick == PickVideoUrl
SpecPick == InitPick /\ [][NextPick]_vars

InitScore == CfgDefault /\ ExIdle /\ SelIdle /\ FetchIdle /\ files = NoFiles /\ AsmIdle
                 /\ NrmIdle /\ SrIdle /\ DlIdle /\ LkIdle /\ PvIdle /\ ScInit /\ PipeIdle
NextScore == ScoreVideo
SpecScore == InitScore /\ [][NextScore]_vars

InitPipe == CfgPipe /\ ExIdle /\ SelIdle /\ FetchInit /\ PipeAsmInit
                /\ NrmIdle /\ SrIdle /\ DlIdle /\ LkIdle /\ PvIdle /\ ScIdle /\ PipeInit
NextPipe == Next \/ CreateVideoCall \/ NextAsm \/ NextSteps
SpecPipe == InitPipe /\ [][NextPipe]_vars

(***************************************************************************)
(* Claims                                                                  *)
(***************************************************************************)

\* C6: extract_keywords returns at most MAX_VISUAL_DOWNLOADS queries and
\* never more queries than the script has [VISUAL] cue lines.
C6_QueryCountBounded ==
    ex_out.done =>
        /\ Len(ex_out.value) <= MAX_VISUAL_DOWNLOADS
        /\ Len(ex_out.value) <= CueCount(ex_script)

\* A script with more non-empty cues than MAX_VISUAL_DOWNLOADS was cut to
\* the limit.
C6_Witness ==
    /\ ex_out.done
    /\ Len(extract_keywords_unbounded(ex_script)) > MAX_VISUAL_DOWNLOADS
    /\ Len(ex_out.value) = MAX_VISUAL_DOWNLOADS
    /\ CueCount(ex_script) > Len(ex_out.value)

\* The positions of the response that _select_best_video considers: those
\* whose id is unused, or all of them when every id is used.
C2_Considered ==
    LET unused == {k \in 1..Len(sel_videos) : sel_videos[k].id \notin sel_used}
    IN IF unused # {} THEN unused ELSE 1..Len(sel_videos)

\* C2: for a non-empty response, _select_best_video returns a considered
\* candidate of maximum score, and among the candidates of maximum score the
\* one earliest in the response; the result is thereby a function of
\* (results, query, used_ids) alone.
C2_MaxScoreEarliest ==
    (sel_out.done /\ sel_videos # <<>>) =>
        \E k \in C2_Considered :
            /\ sel_out.value.video = sel_videos[k]
            /\ sel_out.value.score = _score_video(sel_videos[k], sel_query)
            /\ \A j \in C2_Considered :
                  /\ _score_video(sel_videos[j], sel_query).score <= sel_out.value.score.score
                  /\ (_score_video(sel_videos[j], sel_query).score = sel_out.value.score.score
                        /\ sel_videos[j] # sel_videos[k]) => k < j

\* Two different candidates tie for the maximum, the later one is not the
\* first of the response, and the earlier one is returned.
C2_Witness ==
    /\ sel_out.done
    /\ Len(sel_videos) >= 2
    /\ sel_videos[1] # sel_videos[2]
    /\ _score_video(sel_videos[1], sel_query).score = _score_video(sel_videos[2], sel_query).score
    /\ _score_video(sel_videos[1], sel_query).score > 0
    /\ C2_Considered = {1, 2}
    /\ sel_out.value.video = sel_videos[1]

\* The records of the quality log written by live acquisitions.
C1_LiveRecords == {k \in 1..Len(log) : log[k].source = "pexels" /\ log[k].video_id # NoId}

\* C1: within one run of fetch_visuals, when the live clip selected for a
\* later query has the id of the live clip of an earlier query, every video
\* the later search returned was already in used_ids at that selection.
C1_NoDuplicateUnlessAllUsed ==
    \A a, b \in C1_LiveRecords :
        (/\ a < b
         /\ log[a].video_id = log[b].video_id
         /\ last_call.scene = log[b].scene)
            => last_call.all_used

\* The later search returned the clip of the earlier query together with an
\* unused one, and the unused one was taken.
C1_Witness ==
    /\ Cardinality(C1_LiveRecords) = 2
    /\ last_call.ret = "True"
    /\ last_call.stage = "ok"
    /\ log[1].video_id \in last_call.offered
    /\ ~last_call.all_used
    /\ log[2].video_id # log[1].video_id

\* C3 as stated: a call whose live path fails while the cache holds an MP4
\* entry sharing a token with the query returns True and leaves a file at
\* output_path.
C3_CacheFallbackAlways ==
    (/\ last_call.ret \in {"True", "False"}
     /\ last_call.stage # "ok"
     /\ last_call.cache_match)
        => /\ last_call.ret = "True"
           /\ VideoPath(last_call.scene) \in DOMAIN files

\* C3: a call whose live path fails while the cache is enabled and holds an
\* MP4 entry sharing a token with the query, and in which the copy of the
\* cached file goes through, returns True and leaves the cached clip at
\* output_path; with the cache disabled, or when the copy fails, it returns
\* False.
C3_CacheFallback ==
    (last_call.ret \in {"True", "False"} /\ last_call.stage # "ok") =>
        /\ (last_call.cache_match /\ ENABLE_VISUAL_CACHE /\ last_call.copy_ok)
              => /\ last_call.ret = "True"
                 /\ VideoPath(last_call.scene) \in DOMAIN files
                 /\ \E e \in cache : files[VideoPath(last_call.scene)] = e.content
                 /\ log[Len(log)].source = "cache_fallback"
        /\ (~ENABLE_VISUAL_CACHE \/ ~last_call.copy_ok)
              => last_call.ret = "False"

\* The download failed after its retries and the clip came from the cache.
C3_Witness ==
    /\ last_call.ret = "True"
    /\ last_call.stage = "download_failed"
    /\ last_call.cache_match
    /\ ENABLE_VISUAL_CACHE
    /\ log[Len(log)].source = "cache_fallback"
    /\ VideoPath(last_call.scene) \in DOMAIN files

\* C7: a call in which the live path and the cache fallback both fail
\* returns False without raising and adds no clip to the result, the run
\* moves on to the next query, and a run that is not interrupted ends having
\* processed every query.
C7_FailureDoesNotAbort ==
    /\ pc # "raised"
    /\ last_call.ret = "False" =>
          /\ log[Len(log)].status = "failed"
          /\ VideoPath(last_call.scene) \notin Range(downloaded)
          /\ pc \in {"loop", "fetched"}
          /\ i = last_call.scene + 1
    /\ (pc = "fetched" /\ PEXELS_API_KEY /\ last_call.ret # "KeyboardInterrupt") =>
          /\ searched = 1..Len(keywords)
          /\ Len(log) = Len(keywords)

\* The first query failed on both paths and the second one was acquired.
C7_Witness ==
    /\ pc = "fetched"
    /\ Len(log) = 2
    /\ log[1].status = "failed"
    /\ log[2].status = "ok"
    /\ downloaded = <<VideoPath(2)>>

\* The clips of the calls that returned True, in the order of the calls.
RECURSIVE C8_AcquiredClips(_)
C8_AcquiredClips(records) ==
    IF records = <<>> THEN <<>>
    ELSE (IF records[1].status = "ok" THEN <<VideoPath(records[1].scene)>> ELSE <<>>)
            \o C8_AcquiredClips(Tail(records))

\* C8: after a KeyboardInterrupt during the acquisition of query i,
\* fetch_visuals is over, no search was issued for a query after i, and the
\* result is the clips acquired for the queries before i, in their order.
C8_InterruptStops ==
    last_call.ret = "KeyboardInterrupt" =>
        /\ pc = "fetched"
        /\ searched = 1..last_call.scene
        /\ Len(log) = last_call.scene - 1
        /\ downloaded = C8_AcquiredClips(log)
        /\ VideoPath(last_call.scene) \notin Range(downloaded)

\* The first clip was acquired, the interrupt arrived while the second was
\* being downloaded, and the result is the first clip alone.
C8_Witness ==
    /\ last_call.ret = "KeyboardInterrupt"
    /\ last_call.scene = 2
    /\ last_call.stage = "download"
    /\ Len(keywords) = 2
    /\ downloaded = <<VideoPath(1)>>
    /\ pc = "fetched"

\* The output of a finished run and the total length of the clips it
\* concatenated.
C4_Output == files[OutputFile]
C4_ConcatTotal == SumSeq(Durations(files, processed))

\* C4 as stated: after a successful run the output lasts target_duration to
\* within one frame, every concatenated clip lasts target_duration /
\* expected_clips, and the concatenated clips add up to target_duration.
C4_TotalEqualsTarget ==
    asm_pc = "done" =>
        /\ Abs(Max(C4_Output.video, C4_Output.audio) - target_duration) <= FrameMs
        /\ \A k \in 1..Len(processed) :
              Abs(files[processed[k]].duration * clip_count - target_duration)
                  <= FrameMs * clip_count
        /\ Abs(C4_ConcatTotal - target_duration) <= FrameMs

\* C4: after a successful run, with final_duration the target in force
\* (target_duration when positive, else the probed length of the audio when
\* positive, else 30 s) and per_clip = final_duration / clip_count: clip_count
\* clips were concatenated; each is a re-encoded clip of length per_clip or
\* the clip as it was given; when every concatenated clip is within 0.1 s of
\* per_clip their total is within clip_count * 0.1 s of final_duration; and
\* the video of the output lasts the smaller of that total and final_duration.
C4_TotalWithinTolerance ==
    asm_pc = "done" =>
        /\ final_duration = (IF target_duration > 0 THEN target_duration
                             ELSE IF tools.ffprobe THEN audio_file.duration
                             ELSE 30000)
        /\ Len(processed) = clip_count
        /\ \A k \in 1..Len(processed) :
              \/ processed[k] = source_files[k]
              \/ /\ processed[k] = NormPath(source_files[k], per_clip)
                 /\ files[processed[k]].duration = per_clip
        /\ (\A k \in 1..Len(processed) :
                Abs(files[processed[k]].duration - per_clip) < ToleranceMs)
              => Abs(C4_ConcatTotal - final_duration) < clip_count * ToleranceMs
        /\ C4_Output.video = Min(C4_ConcatTotal, final_duration)
        /\ C4_Output.video <= final_duration

\* A run given a target, one clip that is too long and one that is too
\* short, topped up with placeholders: both clips were re-encoded and the
\* total is the target.
C4_Witness ==
    /\ asm_pc = "done"
    /\ target_duration > 0
    /\ clip_count = 4
    /\ Len(video_files) = 2
    /\ processed[1] = NormPath(VideoPath(1), per_clip)
    /\ processed[2] = NormPath(VideoPath(2), per_clip)
    /\ files[VideoPath(1)].duration > per_clip
    /\ files[VideoPath(2)].duration < per_clip
    /\ C4_ConcatTotal = target_duration
    /\ C4_Output.video = target_duration

\* The palette of the placeholders.
C5_Palette == <<"blue", "green", "red", "purple", "orange", "cyan", "magenta", "yellow">>

\* The inputs of _ensure_clip_count that exist, in input order.
C5_Existing == SelectSeq(video_files, LAMBDA v : v \in DOMAIN files)

\* C5: _ensure_clip_count returns expected_clips (>= 1) entries: the first
\* min(k, expected_clips) of the k existing inputs in input order, then for
\* each further 0-based position p the placeholder of p, whose command
\* writes "Scene p+1" on the colour palette[p mod 8]; it never raises,
\* whatever the number of existing inputs.
C5_ClipCountShape ==
    asm_pc \in {"normalize", "concat", "mux", "done"} =>
        /\ clip_count >= 1
        /\ Len(source_files) = clip_count
        /\ \A k \in 1..Min(Len(C5_Existing), clip_count) : source_files[k] = C5_Existing[k]
        /\ Len(fallback_cmds) = clip_count - Min(Len(C5_Existing), clip_count)
        /\ \A k \in (Min(Len(C5_Existing), clip_count) + 1)..clip_count :
              /\ source_files[k] = FallbackPath(k - 1)
              /\ \E c \in Range(fallback_cmds) :
                    /\ c.output_path = source_files[k]
                    /\ c.text = <<"Scene", k>>
                    /\ c.color = C5_Palette[((k - 1) % 8) + 1]
                    /\ c.duration = per_clip
                    /\ tools.drawtext =>
                          /\ files[source_files[k]].text = c.text
                          /\ files[source_files[k]].color = c.color

\* No clip was given and 8 are expected: the run ends well on placeholders
\* "Scene 1" .. "Scene 8".
C5_Witness ==
    /\ asm_pc = "done"
    /\ video_files = <<>>
    /\ expected_clips = 8
    /\ Len(source_files) = 8
    /\ \A k \in 1..8 : files[source_files[k]].text = <<"Scene", k>>
    /\ result.status = "returned"

\* C10: when the concat command or the mux command fails, create_video_ffmpeg
\* raises: it returns no output path and goes no further, and leaves no
\* complete output file in place of the one it could not make.
C10_FailureRaises ==
    /\ (r1 = "failed" \/ r2 = "failed") =>
          /\ asm_pc = "raised"
          /\ result.status = "raised"
          /\ OutputFile \in DOMAIN files => "partial" \in DOMAIN files[OutputFile]
    /\ r1 = "failed" => r2 = "none"
    /\ result.status = "returned" => (r1 = "ok" /\ r2 = "ok")

\* The concat went through and the mux failed, leaving a partial file: the
\* run raised.
C10_Witness ==
    /\ r1 = "ok"
    /\ r2 = "failed"
    /\ result.status = "raised"
    /\ OutputFile \in DOMAIN files

\* The entries of the concat list that are acquired clips.
C9_RealEntries ==
    SelectSeq(files[ConcatList].entries, LAMBDA e : e.kind = "video")

\* C9: the queries are acquired in the order of their cues, and the clips
\* acquired for them stand in the concat list in that order: the clip of cue
\* a before the clip of cue b whenever a < b.
C9_ScriptOrder ==
    /\ \A k \in 1..Len(log) : log[k].query = keywords[log[k].scene]
    /\ \A a, b \in 1..Len(log) : a < b => log[a].scene < log[b].scene
    /\ ConcatList \in DOMAIN files =>
          /\ Len(C9_RealEntries) = Len(downloaded)
          /\ \A k \in 1..Len(downloaded) :
                /\ C9_RealEntries[k].n = downloaded[k].n
                /\ C9_RealEntries[k].n = C8_AcquiredClips(log)[k].n
          /\ \A a, b \in 1..Len(C9_RealEntries) :
                a < b => C9_RealEntries[a].n < C9_RealEntries[b].n

\* Both cues got a clip, and the concat list holds the clip of cue 1, then
\* the clip of cue 2, then placeholders.
C9_Witness ==
    /\ ConcatList \in DOMAIN files
    /\ Len(downloaded) = 2
    /\ Len(files[ConcatList].entries) = 8
    /\ files[ConcatList].entries[1].n = 1
    /\ files[ConcatList].entries[2].n = 2
    /\ files[ConcatList].entries[1].kind = "video"
    /\ files[ConcatList].entries[2].kind = "video"
    /\ files[ConcatList].entries[3].kind = "fallback"

\* C11 as stated: with the API key missing, fetch_visuals ends by an error as
\* soon as it has started, and the run goes on to no search, no download and
\* no assembly.
C11_MissingKeyFatal ==
    (~PEXELS_API_KEY /\ pc # "start") =>
        /\ pc = "raised"
        /\ searched = {}
        /\ downloaded = <<>>
        /\ asm_pc = "idle"

\* C11: with the API key missing, fetch_visuals returns the empty list at
\* once, without an error: no query is extracted, no search or download is
\* issued, no clip, cache entry or log record is written; the assembly is then
\* called with no clip and fills every position with a placeholder.
C11_MissingKeySkips ==
    ~PEXELS_API_KEY =>
        /\ pc \in {"start", "fetched"}
        /\ keywords = <<>>
        /\ searched = {}
        /\ downloaded = <<>>
        /\ used_ids = {}
        /\ log = <<>>
        /\ quality_log = <<>>
        /\ cache \in OldCaches
        /\ \A q \in DOMAIN files : q.kind = "video" => q = VideoPath(2)
        /\ asm_pc # "idle" => (pc = "fetched" /\ video_files = <<>>)
        /\ \A k \in 1..Len(source_files) : source_files[k] = FallbackPath(k - 1)

\* The key is missing and the run has assembled a video of 8 placeholders.
C11_Witness ==
    /\ ~PEXELS_API_KEY
    /\ pc = "fetched"
    /\ asm_pc = "done"
    /\ result.status = "returned"
    /\ Len(processed) = 8
    /\ searched = {}

\* The files the assembler has written.
C12_AssemblerFiles == {q \in DOMAIN files : q.kind # "video" \/ q.norm # <<>>}

\* C12 as stated: with the media-tooling binary missing, no search or
\* download is issued and no placeholder, normalized, concat or output file
\* is created.
C12_MissingBinaryFatalAtStart ==
    ~tools.ffmpeg =>
        /\ searched = {}
        /\ downloaded = <<>>
        /\ C12_AssemblerFiles = {}

\* C12: with the media-tooling binary missing, create_video_ffmpeg raises as
\* its first step, after fetch_visuals has returned: no placeholder command is
\* run, no clip is normalized, the concat and the mux are not run, and no
\* placeholder, normalized, concat, audio or output file is created.
C12_MissingBinaryRaisesAtAssemblyStart ==
    ~tools.ffmpeg =>
        /\ asm_pc \in {"idle", "start", "raised"}
        /\ asm_pc # "idle" => pc = "fetched"
        /\ asm_pc = "raised" => result = Raised("FFmpeg binary not found")
        /\ asm_pc # "raised" => result = NoResult
        /\ fallback_cmds = <<>>
        /\ source_files = <<>>
        /\ processed = <<>>
        /\ r1 = "none"
        /\ r2 = "none"
        /\ C12_AssemblerFiles = {}

\* Both queries were searched and downloaded, and the assembly then raised on
\* the missing binary.
C12_Witness ==
    /\ ~tools.ffmpeg
    /\ asm_pc = "raised"
    /\ result.status = "raised"
    /\ searched = {1, 2}
    /\ Len(downloaded) = 2
    /\ C12_AssemblerFiles = {}

\* A call that ran the encoder on a clip it could read, and whose encoder
\* ended well: a successful normalization.
C13_Successful(call) == call.encoded /\ call.readable /\ call.how = "ok"

\* C13 as stated: a call given a clip probed positive and within 0.1 s of the
\* target returns the path it was given and runs no encode; and the call that
\* follows a successful normalization, with the same target, runs no encode
\* and returns the file it was given.
C13_Idempotent ==
    \A k \in 1..Len(nrm_calls) :
        /\ (nrm_calls[k].probed > 0 /\ Abs(nrm_calls[k].probed - nrm_target) < 100)
              => /\ nrm_calls[k].output = nrm_calls[k].input
                 /\ ~nrm_calls[k].encoded
                 /\ ~nrm_calls[k].changed
        /\ (k > 1 /\ C13_Successful(nrm_calls[k - 1]))
              => /\ nrm_calls[k].output = nrm_calls[k].input
                 /\ ~nrm_calls[k].encoded
                 /\ ~nrm_calls[k].changed

\* C13: a call given a clip probed positive and within 0.1 s of the target
\* returns the path it was given, runs no encode and leaves the disk as it
\* was; when ffprobe is there, the call that follows a successful
\* normalization, with the same target, is such a call; when ffprobe is not
\* there the probe says 0 and every call runs the encoder, the call after a
\* successful normalization writing a further file.
C13_IdempotentWhenProbed ==
    \A k \in 1..Len(nrm_calls) :
        /\ (nrm_calls[k].probed > 0 /\ Abs(nrm_calls[k].probed - nrm_target) < 100)
              => /\ nrm_calls[k].output = nrm_calls[k].input
                 /\ ~nrm_calls[k].encoded
                 /\ ~nrm_calls[k].changed
        /\ (k > 1 /\ C13_Successful(nrm_calls[k - 1]) /\ tools.ffprobe)
              => /\ nrm_calls[k].input = NormPath(nrm_calls[k - 1].input, nrm_target)
                 /\ nrm_calls[k].probed = nrm_target
                 /\ nrm_calls[k].output = nrm_calls[k].input
                 /\ ~nrm_calls[k].encoded
                 /\ ~nrm_calls[k].changed
        /\ ~tools.ffprobe
              => /\ nrm_calls[k].probed = 0
                 /\ nrm_calls[k].encoded
                 /\ (k > 1 /\ C13_Successful(nrm_calls[k - 1]) /\ nrm_calls[k].how = "ok")
                       => nrm_calls[k].output = NormPath(nrm_calls[k].input, nrm_target)

\* A clip that was too long was re-encoded, and the two calls that followed
\* returned the re-encoded file without running the encoder.
C13_Witness ==
    /\ tools.ffprobe
    /\ Len(nrm_calls) = 3
    /\ nrm_calls[1].probed > nrm_target
    /\ C13_Successful(nrm_calls[1])
    /\ nrm_calls[1].output = NormPath(VideoPath(1), nrm_target)
    /\ ~nrm_calls[2].encoded
    /\ nrm_calls[2].output = nrm_calls[1].output
    /\ nrm_calls[3].output = nrm_calls[1].output
    /\ files[nrm_path].duration = nrm_target

\* C14: a call whose re-encode fails, because the clip cannot be probed and
\* read or because the encoder ends by an error, returns the path it was
\* given.
C14_FailureReturnsOriginal ==
    \A k \in 1..Len(nrm_calls) :
        (nrm_calls[k].encoded /\ (~nrm_calls[k].readable \/ nrm_calls[k].how # "ok"))
            => nrm_calls[k].output = nrm_calls[k].input

\* The waits of a run of which `failed` attempts have failed: base_backoff * k
\* after the k-th, but none after the last attempt allowed.
C16_Backoff(failed) ==
    [k \in 1..(IF failed < PEXELS_MAX_RETRIES THEN failed ELSE PEXELS_MAX_RETRIES - 1) |->
        PEXELS_RETRY_BACKOFF_MS * k]

\* C16: _search_video issues at most PEXELS_MAX_RETRIES requests, every
\* request before the last issued has failed, it returns the videos of the
\* first request that succeeds, it has waited base_backoff * k after the k-th
\* failure except after that of the last attempt allowed, and once
\* PEXELS_MAX_RETRIES requests have failed it raises the search error with the
\* last error caught, and returns nothing.
C16_SearchRetries ==
    /\ Len(sr_requests) <= PEXELS_MAX_RETRIES
    /\ \A k \in 1..(Len(sr_requests) - 1) : sr_requests[k] # "ok"
    /\ sr_pc = "loop" =>
          /\ sr_out = NoResult
          /\ \A k \in 1..Len(sr_requests) : sr_requests[k] # "ok"
          /\ sr_sleeps = C16_Backoff(Len(sr_requests))
    /\ sr_pc = "returned" =>
          /\ sr_requests[Len(sr_requests)] = "ok"
          /\ sr_out.status = "returned"
          /\ sr_sleeps = C16_Backoff(Len(sr_requests) - 1)
    /\ sr_pc = "raised" =>
          /\ Len(sr_requests) = PEXELS_MAX_RETRIES
          /\ \A k \in 1..Len(sr_requests) : sr_requests[k] # "ok"
          /\ sr_out.status = "raised"
          /\ sr_out.error.what = "Pexels search failed"
          /\ sr_out.error.last_exc =
                (IF sr_requests = <<>> THEN "None" ELSE sr_requests[Len(sr_requests)])
          /\ sr_sleeps = C16_Backoff(Len(sr_requests))

\* Two requests failed, each followed by its wait, and the third returned a
\* video.
C16_Witness ==
    /\ PEXELS_MAX_RETRIES = 3
    /\ sr_pc = "returned"
    /\ Len(sr_requests) = 3
    /\ sr_requests[1] # sr_requests[2]
    /\ sr_sleeps = <<1500, 3000>>
    /\ sr_out.value # <<>>

\* C17: _download_with_retry makes at most PEXELS_MAX_RETRIES attempts, every
\* attempt before the last made has failed, it returns at the first attempt
\* that completes, its waits are those of the search, and once
\* PEXELS_MAX_RETRIES attempts have failed it raises the download error with
\* the error of the last attempt.
C17_DownloadRetries ==
    /\ Len(dl_outcomes) <= PEXELS_MAX_RETRIES
    /\ \A k \in 1..(Len(dl_outcomes) - 1) : dl_outcomes[k] # "ok"
    /\ dl_pc \in {"attempt", "stream"} =>
          /\ dl_out = NoResult
          /\ \A k \in 1..Len(dl_outcomes) : dl_outcomes[k] # "ok"
          /\ dl_sleeps = C16_Backoff(Len(dl_outcomes))
          /\ dl_attempt = Len(dl_outcomes) + 1
    /\ dl_pc = "returned" =>
          /\ dl_outcomes[Len(dl_outcomes)] = "ok"
          /\ dl_out.status = "returned"
          /\ dl_file = "new"
          /\ dl_sleeps = C16_Backoff(Len(dl_outcomes) - 1)
    /\ dl_pc = "raised" =>
          /\ Len(dl_outcomes) = PEXELS_MAX_RETRIES
          /\ \A k \in 1..Len(dl_outcomes) : dl_outcomes[k] # "ok"
          /\ dl_out.status = "raised"
          /\ dl_out.error.what = "Video download failed"
          /\ dl_out.error.last_exc =
                (IF dl_outcomes = <<>> THEN "None" ELSE dl_outcomes[Len(dl_outcomes)])
          /\ dl_sleeps = C16_Backoff(Len(dl_outcomes))

\* Three attempts failed, the first and the last differently, and the error
\* raised carries that of the third.
C17_Witness ==
    /\ PEXELS_MAX_RETRIES = 3
    /\ dl_pc = "raised"
    /\ dl_outcomes[1] = "HTTPError"
    /\ dl_outcomes[3] = "TimeoutError: too large"
    /\ dl_out.error.last_exc = "TimeoutError: too large"
    /\ dl_sleeps = <<1500, 3000>>

\* C15: no attempt writes more than MAX_DOWNLOAD_BYTES to output_path, and an
\* attempt that receives more than MAX_DOWNLOAD_BYTES or lasts longer than
\* MAX_DOWNLOAD_SECONDS ends as a failed attempt with no file left at
\* output_path.
C15_LimitsEnforced ==
    /\ dl_written <= MAX_DOWNLOAD_BYTES
    /\ dl_last.written <= MAX_DOWNLOAD_BYTES
    /\ (dl_last.over \/ dl_last.late) =>
          /\ dl_last.outcome \notin {"ok", "none"}
          /\ dl_last.file = "absent"

\* The overlap of a file of the directory with the query.
C19_Overlap(e) == Cardinality(_tokenize(lk_query) \cap NameTokens(e.name))

\* What the lookup is to return over the files S: a file of S of the largest
\* overlap when that is positive and the cache is enabled, else None.
C19_Expected(S) ==
    IF ENABLE_VISUAL_CACHE /\ \E e \in S : C19_Overlap(e) > 0
    THEN {e \in S : \A o \in S : C19_Overlap(o) <= C19_Overlap(e)}
    ELSE {None}

\* C19 as stated: the entry returned has the largest overlap of all the files
\* of the directory.
C19_MaxOverAllEntries == lk_out.done => lk_out.value \in C19_Expected(lk_entries)

\* C19: _find_cached_clip returns a file of the largest overlap among those
\* whose name ends in .mp4 when that overlap is positive, and None when no
\* such file has a positive overlap or the cache is disabled.
C19_MaxOverMp4Entries ==
    lk_out.done =>
        lk_out.value \in C19_Expected({e \in lk_entries : e.name.ext = "mp4"})

\* The file listed second has the larger overlap and is the one returned.
C19_Witness ==
    /\ lk_out.done
    /\ Len(lk_listing) = 2
    /\ C19_Overlap(lk_listing[1]) = 1
    /\ C19_Overlap(lk_listing[2]) = 2
    /\ lk_out.value = lk_listing[2]

\* C18: a call whose live download succeeded returns True with a record of
\* source "pexels" and leaves the whole downloaded clip at output_path,
\* whether the copy into the cache went through or failed; the copy is
\* attempted, so that with the cache enabled and the copy going through the
\* cache holds the clip under the name built from its id and query.
C18_StoreNeverFailsDownload ==
    (last_call.ret \in {"True", "False", "raised"} /\ last_call.stage = "ok") =>
        /\ last_call.ret = "True"
        /\ log[Len(log)].scene = last_call.scene
        /\ log[Len(log)].source = "pexels"
        /\ log[Len(log)].status = "ok"
        /\ VideoPath(last_call.scene) \in DOMAIN files
        /\ files[VideoPath(last_call.scene)].src = last_call.selected
        /\ ~files[VideoPath(last_call.scene)].partial
        /\ VideoPath(last_call.scene) \in Range(downloaded)
        /\ (ENABLE_VISUAL_CACHE /\ last_call.store_ok) =>
              \E e \in cache :
                 /\ e.name = CacheName(last_call.selected, keywords[last_call.scene])
                 /\ e.content = files[VideoPath(last_call.scene)]

\* The copy into the cache failed, the cache holds nothing of the clip, and
\* the call returned True with the clip in place.
C18_Witness ==
    /\ last_call.ret = "True"
    /\ last_call.stage = "ok"
    /\ ENABLE_VISUAL_CACHE
    /\ ~last_call.store_ok
    /\ \A e \in cache : e.content.src # last_call.selected
    /\ VideoPath(last_call.scene) \in DOMAIN files
    /\ log[Len(log)].source = "pexels"

\* The scenes whose download_video call returned.
C20_ReturnedScenes ==
    searched \ (IF last_call.ret \in {"KeyboardInterrupt", "raised"}
                THEN {last_call.scene} ELSE {})

\* The lines of the quality log written for scene n and its query.
C20_LinesOf(n) ==
    {k \in 1..Len(quality_log) :
        quality_log[k].scene = n /\ quality_log[k].query = keywords[n]}

\* What the lines of the quality log say: the status is "ok" exactly for the
\* calls that returned True, with source "pexels" for a live clip and
\* "cache_fallback" for a cached one, and "failed" exactly for those that
\* returned False.
C20_StatusMatchesReturn ==
    /\ \A k \in 1..Len(quality_log) :
          /\ quality_log[k].scene \in C20_ReturnedScenes
          /\ quality_log[k].status \in {"ok", "failed"}
          /\ quality_log[k].status = "ok"
                <=> VideoPath(quality_log[k].scene) \in Range(downloaded)
          /\ quality_log[k].status = "ok"
                <=> quality_log[k].source \in {"pexels", "cache_fallback"}
    /\ (quality_log # <<>> /\ quality_log[Len(quality_log)].scene = last_call.scene) =>
          /\ last_call.ret = "True"
                <=> quality_log[Len(quality_log)].status = "ok"
          /\ last_call.ret = "False"
                <=> quality_log[Len(quality_log)].status = "failed"
          /\ (last_call.ret = "True" /\ last_call.stage = "ok")
                <=> quality_log[Len(quality_log)].source = "pexels"
          /\ (last_call.ret = "True" /\ last_call.stage # "ok")
                <=> quality_log[Len(quality_log)].source = "cache_fallback"

\* C20 as stated: every call that returned has exactly one line in the
\* quality log, whose status matches what the call returned.
C20_ExactlyOneRecord ==
    /\ \A n \in C20_ReturnedScenes : Cardinality(C20_LinesOf(n)) = 1
    /\ C20_StatusMatchesReturn

\* C20: every call that returned has at most one line in the quality log for
\* its scene and query, exactly one when the log file can be written, and
\* the status of each line matches what the call returned.
C20_AtMostOneRecord ==
    /\ \A n \in C20_ReturnedScenes :
          /\ Cardinality(C20_LinesOf(n)) <= 1
          /\ log_writable => Cardinality(C20_LinesOf(n)) = 1
    /\ Len(quality_log) <= Cardinality(C20_ReturnedScenes)
    /\ C20_StatusMatchesReturn

\* The log could be written: the first call took its clip from the cache and
\* the second failed, and each has its line.
C20_Witness ==
    /\ log_writable
    /\ pc = "fetched"
    /\ C20_ReturnedScenes = {1, 2}
    /\ Len(quality_log) = 2
    /\ quality_log[1].source = "cache_fallback"
    /\ quality_log[1].status = "ok"
    /\ quality_log[2].status = "failed"
    /\ downloaded = <<VideoPath(1)>>

\* The MP4 variants of the video that have a usable URL.
C21_Usable == {k \in 1..Len(pv_files) :
                  pv_files[k].file_type = "video/mp4" /\ pv_files[k].link # ""}

C21_Height(f) == IF f.height = 0 THEN 720 ELSE f.height
C21_Width(f) == IF f.width = 0 THEN 1280 ELSE f.width
C21_Distance(f) == Abs(C21_Height(f) - 720)
C21_Product(f) == C21_Width(f) * C21_Height(f)

\* C21: among the MP4 variants with a usable URL, _pick_video_url returns
\* one whose height is closest to 720 and, among those equally close, one of
\* the smallest width*height product.
C21_ClosestTo720 ==
    (pv_out.done /\ C21_Usable # {}) =>
        \E k \in C21_Usable :
            /\ pv_out.value = pv_files[k].link
            /\ \A j \in C21_Usable :
                  \/ C21_Distance(pv_files[k]) < C21_Distance(pv_files[j])
                  \/ /\ C21_Distance(pv_files[k]) = C21_Distance(pv_files[j])
                     /\ C21_Product(pv_files[k]) <= C21_Product(pv_files[j])

\* C22: for the files of the cache directory and the query at hand,
\* _find_cached_clip returns the same path in whatever order the listing
\* yields the files.
C22_ListingOrderIrrelevant ==
    lk_out.done =>
        \A listing \in Listings(lk_entries) :
            _find_cached_clip(lk_query, listing) = lk_out.value

\* Whether the run has built its concat list.
C23_Listed == asm_pc \in {"concat", "mux", "done"} \/ r1 # "none"

\* Whether ensure_exact_duration found the clip at position k within 0.1 s
\* of per_clip.
C23_Near(k) ==
    /\ get_video_duration(files, source_files[k]) > 0
    /\ Abs(get_video_duration(files, source_files[k]) - per_clip) < ToleranceMs

C24_NormalizedDeleted ==
    result.status = "returned" =>
        \A k \in 1..Len(processed) :
            processed[k] # source_files[k] => processed[k] \notin DOMAIN files

\* The placeholder commands of the run that wrote no clip.
C25_FailedPlaceholders ==
    {k \in 1..Len(fallback_cmds) : fallback_cmds[k].output_path \notin DOMAIN files}

\* C25: a run in which the placeholder command, the audio preparation, the
\* concat or the mux failed ends by an error at that step; a run that
\* returns has seen none of them fail.
C25_EveryFailurePropagates ==
    /\ result.status = "returned" =>
          /\ C25_FailedPlaceholders = {}
          /\ audio_prep = "ok"
          /\ r1 = "ok"
          /\ r2 = "ok"
    /\ (asm_pc \notin {"start", "clips"} /\ C25_FailedPlaceholders # {}) =>
          /\ result.status = "raised"
          /\ r1 = "none"
    /\ audio_prep \in {"failed", "failed_partial"} =>
          /\ result.status = "raised"
          /\ r2 = "none"
    /\ r1 = "failed" => result = Raised("Video concat failed")
    /\ r2 = "failed" => result = Raised("Final mux failed")

\* The concat list, the concatenated video and the prepared audio.
C29_Intermediates == {ConcatList, TempConcat, TempAudio}

\* C29: after a run that returned, none of the concat list, the concatenated
\* video and the prepared audio exists; after a run that failed at the concat
\* the concat list is still there, and after one that failed at the mux the
\* concat list, the concatenated video and whatever the audio preparation
\* wrote are still there.
C29_CleanupOnSuccessOnly ==
    /\ result.status = "returned" =>
          /\ C29_Intermediates \cap DOMAIN files = {}
          /\ OutputFile \in DOMAIN files
    /\ r1 = "failed" =>
          /\ result.status = "raised"
          /\ ConcatList \in DOMAIN files
          /\ files[ConcatList].entries = processed
    /\ r2 = "failed" =>
          /\ result.status = "raised"
          /\ {ConcatList, TempConcat} \subseteq DOMAIN files
          /\ files[ConcatList].entries = processed
          /\ audio_prep = "ok" =>
                (TempAudio \in DOMAIN files /\ files[TempAudio] = [duration |-> final_duration])
          /\ audio_prep = "failed_partial" => TempAudio \in DOMAIN files

\* The run returned after an audio preparation that went through, and the
\* three intermediate files are gone.
C29_Witness ==
    /\ result.status = "returned"
    /\ audio_prep = "ok"
    /\ r1 = "ok"
    /\ r2 = "ok"
    /\ C29_Intermediates \cap DOMAIN files = {}
    /\ Len(processed) > 1

\* The positions of the response whose id is not in used_ids.
C26_Unused == {k \in 1..Len(sel_videos) : sel_videos[k].id \notin sel_used}

C26_Score(k) == _score_video(sel_videos[k], sel_query).score

\* C26: when some result has an id outside used_ids, the clip selected is
\* one of these and no such result scores higher; when every result is used,
\* a clip is selected all the same, and no result at all scores higher; only
\* an empty response gives no clip.
C26_UnusedElseAll ==
    sel_out.done =>
        /\ sel_videos = <<>> <=> sel_out.value = None
        /\ (sel_videos # <<>> /\ C26_Unused # {}) =>
              \E k \in C26_Unused :
                 /\ sel_out.value.video = sel_videos[k]
                 /\ \A j \in C26_Unused : C26_Score(j) <= sel_out.value.score.score
        /\ (sel_videos # <<>> /\ C26_Unused = {}) =>
              \E k \in 1..Len(sel_videos) :
                 /\ sel_out.value.video = sel_videos[k]
                 /\ sel_out.value.video.id \in sel_used
                 /\ \A j \in 1..Len(sel_videos) : C26_Score(j) <= sel_out.value.score.score

\* The two results are different clips, both used already in the run, and
\* one of them is selected all the same.
C26_Witness ==
    /\ sel_out.done
    /\ Len(sel_videos) = 2
    /\ sel_videos[1] # sel_videos[2]
    /\ C26_Unused = {}
    /\ C26_Score(1) > 0
    /\ sel_out.value.video = sel_videos[1]

\* The tokens the query shares with the words of a text.
C27_Shared(text) ==
    Cardinality({t \in _tokenize(sc_query) : \E k \in 1..Len(text) : t \in WordTokens(text[k])})

C27_Bonus == IF sc_video.duration >= 4 /\ sc_video.duration <= 15 THEN 1 ELSE 0

\* C27: the score of a candidate is 10 times the number of query tokens in
\* its slug, plus 2 times the number of query tokens in its author name,
\* plus 1 when its duration is from 4 to 15 seconds.
C27_ScoreFormula ==
    sc_out.done =>
        /\ sc_out.value.score
              = 10 * C27_Shared(sc_video.url) + 2 * C27_Shared(sc_video.user) + C27_Bonus
        /\ sc_out.value.overlap = C27_Shared(sc_video.url)
        /\ sc_out.value.title_overlap = C27_Shared(sc_video.user)
        /\ sc_out.value.duration_bonus = C27_Bonus

\* A 15-second clip whose slug shares two tokens with the query, and whose
\* author name shares none, scores 21.
C27_Witness ==
    /\ sc_out.done
    /\ sc_video.duration = 15
    /\ C27_Shared(sc_video.url) = 2
    /\ C27_Shared(sc_video.user) = 0
    /\ sc_out.value.score = 21

\* The non-blank lines of the script, and the cue+narration text of the cue
\* at position `at` of them.
C28_Lines == NonBlankLines(ex_script)

C28_Text(at) ==
    C28_Lines[at].words
        \o (IF at < Len(C28_Lines) /\ ~C28_Lines[at + 1].visual
            THEN C28_Lines[at + 1].words ELSE <<>>)

\* The first up to 7 non-stopword tokens of the text of the cue.
C28_Head(at) ==
    Prefix(SelectSeq([k \in 1..Len(C28_Text(at)) |-> StripPunct(Lower(C28_Text(at)[k]))],
                     LAMBDA w : w # "" /\ w \notin stopwords),
           7)

\* The hint terms of the triggers present in the text of the cue.
C28_Hints(at) ==
    UNION {Range(DOMAIN_HINTS(t)) :
              t \in {u \in Range(DOMAIN_TRIGGERS) :
                        \E k \in 1..Len(C28_Text(at)) : Contains(Lower(C28_Text(at)[k]), u)}}

\* The cues that give a query, in script order.
C28_Cues ==
    SelectSeq([at \in 1..Len(C28_Lines) |-> at],
              LAMBDA at : /\ C28_Lines[at].visual
                          /\ (C28_Head(at) # <<>> \/ C28_Hints(at) # {}))

C28_NoRepeat(q) == \A j, k \in 1..Len(q) : j # k => q[j] # q[k]

\* C28 as stated: every query has at most 10 terms and no term twice.
C28_OrderedSetOfTerms ==
    ex_out.done =>
        \A n \in 1..Len(ex_out.value) :
            /\ Len(ex_out.value[n]) <= 10
            /\ C28_NoRepeat(ex_out.value[n])

\* C28: every query has at most 10 terms; it starts with the first up to 7
\* non-stopword tokens of the text of its cue, as they come; the terms after
\* them are hint terms of triggers present in the text, none of them among
\* the tokens before and none twice; and a query of fewer than 10 terms
\* holds every hint term of every trigger present.
C28_TokensThenNewHints ==
    ex_out.done =>
        /\ Len(ex_out.value) = Min(Len(C28_Cues), MAX_VISUAL_DOWNLOADS)
        /\ \A n \in 1..Len(ex_out.value) :
              LET q == ex_out.value[n]
                  head == C28_Head(C28_Cues[n])
                  hints == C28_Hints(C28_Cues[n])
              IN /\ Len(q) <= 10
                 /\ Len(q) >= Len(head)
                 /\ SubSeq(q, 1, Len(head)) = head
                 /\ \A j \in (Len(head) + 1)..Len(q) :
                       /\ q[j] \in hints
                       /\ q[j] \notin Range(head)
                       /\ \A k \in (Len(head) + 1)..Len(q) : k # j => q[k] # q[j]
                 /\ Len(q) < 10 => hints \subseteq Range(q)

\* A cue whose text says "robot" twice: the query keeps both and adds the one
\* hint term it does not hold yet.
C28_Witness ==
    /\ ex_out.done
    /\ Len(ex_out.value) >= 1
    /\ ex_out.value[1] = <<"robot", "arm", "robot", "technology">>

\* What download_video leaves at output_path when it returns True, and the
\* clips of the result of fetch_visuals: a whole file.
C30_FileWhenTrue ==
    /\ last_call.ret = "True" =>
          /\ VideoPath(last_call.scene) \in DOMAIN files
          /\ ~files[VideoPath(last_call.scene)].partial
    /\ last_call.ret = "False" => VideoPath(last_call.scene) \notin Range(downloaded)
    /\ \A k \in 1..Len(downloaded) : downloaded[k] \in DOMAIN files

\* C30 as stated: a call that returned True has left a file at output_path,
\* and a call that returned False has left none.
C30_NoFileWhenFalse ==
    /\ C30_FileWhenTrue
    /\ last_call.ret = "False" => VideoPath(last_call.scene) \notin DOMAIN files

\* C30: a call that returned True has left a file at output_path; a call that
\* returned False has left none when the file could be removed; every path of
\* the result of fetch_visuals names a file.
C30_NoFileWhenFalseAndRemovable ==
    /\ C30_FileWhenTrue
    /\ (last_call.ret = "False" /\ files_removable) =>
          VideoPath(last_call.scene) \notin DOMAIN files

\* The call for the second query failed before any download, and the
\* video_2.mp4 an earlier run had left is gone.
C30_Witness ==
    /\ last_call.ret = "False"
    /\ last_call.scene = 2
    /\ last_call.stage \in {"search_failed", "no_candidates", "no_url"}
    /\ files_removable
    /\ VideoPath(2) \notin DOMAIN files
    /\ Len(downloaded) = 1

(***************************************************************************)
(* C31                                                                     *)
(***************************************************************************)
\* The record of the call a step of the loop has just logged.
C31_NewRecord == log'[Len(log')]

\* C31: used_ids changes only on a successful live download.  In every
\* step of the loop of fetch_visuals no id leaves used_ids; a call of
\* download_video that returns False, or True through the cache fallback,
\* leaves used_ids as it was; a call that returns True on the live path
\* leaves used_ids with exactly the id of the selected clip added, when the
\* clip has one; and used_ids changes in no other step, but for the call
\* a KeyboardInterrupt ends after its download has succeeded.
C31_UsedIdsOnlyOnLiveSuccess ==
    [][ pc = "loop" =>
          /\ used_ids \subseteq used_ids'
          /\ Len(log') = Len(log) + 1 =>
                /\ C31_NewRecord.source \in {"none", "cache_fallback"} =>
                      used_ids' = used_ids
                /\ C31_NewRecord.source = "pexels" =>
                      /\ last_call'.ret = "True"
                      /\ last_call'.stage = "ok"
                      /\ C31_NewRecord.video_id = last_call'.selected
                      /\ used_ids' = IF last_call'.selected # NoId
                                     THEN used_ids \cup {last_call'.selected}
                                     ELSE used_ids
          /\ used_ids' # used_ids =>
                \/ /\ Len(log') = Len(log) + 1
                   /\ C31_NewRecord.source = "pexels"
                \/ /\ last_call'.ret = "KeyboardInterrupt"
                   /\ last_call'.stage = "store"
      ]_vars

\* A run in which a live download has added its clip and a later call has
\* succeeded through the cache fallback, used_ids holding the one id.
C31_Witness ==
    /\ Len(log) = 2
    /\ log[1].source = "pexels"
    /\ log[1].video_id # NoId
    /\ log[2].source = "cache_fallback"
    /\ used_ids = {log[1].video_id}
    /\ last_call.ret = "True"
    /\ last_call.stage # "ok"

(***************************************************************************)
(* C32                                                                     *)
(***************************************************************************)
\* The number of tokens the query of the running call shares with the name
\* of a cache entry.
C32_Overlap(e) == Cardinality(_tokenize(keywords[i]) \cap NameTokens(e.name))

\* C32: the cache fallback neither reads nor updates used_ids.  A call of
\* download_video whose live path fails leaves used_ids as it was, and when
\* the cache is enabled and holds an MP4 entry sharing a token with the
\* query and the copy goes through, the call returns the content of an MP4
\* entry with the largest overlap, whether or not the source of that entry
\* is in used_ids.
C32_CacheFallbackIgnoresUsedIds ==
    [][ (/\ pc = "loop"
         /\ Len(log') = Len(log) + 1
         /\ last_call'.stage # "ok") =>
          /\ used_ids' = used_ids
          /\ (last_call'.cache_match /\ ENABLE_VISUAL_CACHE /\ last_call'.copy_ok) =>
                /\ log'[Len(log')].source = "cache_fallback"
                /\ VideoPath(i) \in DOMAIN files'
                /\ \E e \in cache :
                      /\ e.name.ext = "mp4"
                      /\ files'[VideoPath(i)] = e.content
                      /\ \A f \in cache :
                            f.name.ext = "mp4" => C32_Overlap(f) <= C32_Overlap(e)
      ]_vars

\* Two output clips of one run are copies of the same source clip: the
\* first query downloaded the clip live and mirrored it into the cache, and
\* the second query got that cache entry back through the fallback.
C32_Witness ==
    /\ Len(log) = 2
    /\ log[1].source = "pexels"
    /\ log[1].video_id # NoId
    /\ log[2].source = "cache_fallback"
    /\ log[1].video_id \in used_ids
    /\ downloaded = <<VideoPath(1), VideoPath(2)>>
    /\ files[VideoPath(1)] = files[VideoPath(2)]
    /\ files[VideoPath(1)].src = log[1].video_id
    /\ \E e \in cache :
          /\ e.name = CacheName(log[1].video_id, log[1].query)
          /\ e.name.stamp = Stamp
          /\ e.content = files[VideoPath(2)]

(***************************************************************************)
(* C33                                                                     *)
(***************************************************************************)
\* _ensure_clip_count has returned in create_video_ffmpeg.
C33_Reconciled == asm_pc \notin {"idle", "start", "clips"} /\ clip_count > 0

\* What run_pipeline hands to the assembler: the list fetch_visuals
\* returned, no longer than expected_clips, both within MAX_VISUAL_DOWNLOADS;
\* and the acquired clips all kept, in order, at the head of source_files.
C33_AcquiredKept ==
    /\ asm_pc # "idle" =>
          /\ video_files = downloaded
          /\ expected_clips = MAX_VISUAL_DOWNLOADS
          /\ Len(video_files) <= expected_clips
    /\ C33_Reconciled =>
          /\ Len(source_files) >= Len(video_files)
          /\ SubSeq(source_files, 1, Len(video_files)) = video_files

\* C33 as stated: the acquired clips never exceed expected_clips, none is
\* dropped, and the number of placeholders is expected_clips minus the
\* number of acquired clips.
C33_PlaceholdersFillExpected ==
    /\ C33_AcquiredKept
    /\ C33_Reconciled =>
          Len(fallback_cmds) = expected_clips - Len(video_files)

\* C33: in run_pipeline the clip paths fetch_visuals returned never exceed
\* the expected_clips passed to the assembler, both bounded by
\* MAX_VISUAL_DOWNLOADS; _ensure_clip_count drops no acquired clip, and the
\* number of placeholders is max(1, expected_clips) minus the number of
\* acquired clips.
C33_PlaceholdersFillClipCount ==
    /\ C33_AcquiredKept
    /\ C33_Reconciled =>
          /\ Len(source_files) = Max(1, expected_clips)
          /\ Len(fallback_cmds) = Max(1, expected_clips) - Len(video_files)

\* A run of the pipeline with the default limit in which one of the two
\* queries gave a clip: the clip is kept and seven placeholders are made.
C33_Witness ==
    /\ C33_Reconciled
    /\ MAX_VISUAL_DOWNLOADS = DefaultMaxVisualDownloads
    /\ Len(video_files) = 1
    /\ source_files[1] = video_files[1]
    /\ Len(fallback_cmds) = DefaultMaxVisualDownloads - 1

(***************************************************************************)
(* C34                                                                     *)
(***************************************************************************)
\* The steps of run_pipeline after the assembly, in the order of the code,
\* with and without the upload.
C34_StepOrders ==
    { <<"thumbnail", "metadata", "subtitles", "upload", "summary">>,
      <<"thumbnail", "metadata", "subtitles", "summary">> }

C34_IsPrefix(s, t) == Len(s) <= Len(t) /\ s = SubSeq(t, 1, Len(s))

\* C34: run_pipeline executes its stages strictly in sequence.  A step of
\* the assembly is taken only once fetch_visuals has returned, and leaves
\* what fetch_visuals returned as it is; a step after the assembly is taken
\* only once fetch_visuals and create_video are over, and the later steps
\* start in the order thumbnail, metadata, subtitles, upload (when it is
\* enabled), summary, each after the one before has returned; and when
\* create_video has raised, run_pipeline ends with that error: no later
\* step has started and no summary is written.
C34_StagesInSequence ==
    [][ /\ asm_vars' # asm_vars =>
              /\ pc = "fetched"
              /\ UNCHANGED <<fetch_rest, pipe_vars>>
        /\ pipe_vars' # pipe_vars =>
              /\ pc = "fetched"
              /\ asm_pc \in {"done", "raised"}
              /\ UNCHANGED <<fetch_vars, asm_vars>>
        /\ \E order \in C34_StepOrders : C34_IsPrefix(pipeline_steps', order)
        /\ pipeline_steps' # <<>> => result'.status = "returned"
        /\ asm_pc' = "raised" =>
              /\ result'.status = "raised"
              /\ pipeline_steps' = <<>>
              /\ pipeline_pc' \in {"step4", "raised"}
        /\ (asm_pc = "raised" /\ pipe_vars' # pipe_vars) => pipeline_pc' = "raised"
      ]_vars

\* The assembly of a run that had acquired a clip has raised, and
\* run_pipeline has ended with the error before any later step.
C34_Witness ==
    /\ pc = "fetched"
    /\ Len(downloaded) >= 1
    /\ asm_pc = "raised"
    /\ result.status = "raised"
    /\ source_files # <<>>
    /\ pipeline_pc = "raised"
    /\ pipeline_steps = <<>>

====
